---- MODULE Spec2Model ----
(***************************************************************************)
(* Schedule Consistency Engine of agentic-scheduler: the in-memory         *)
(* schedule held by ChangeManagementAgent, the conflict rules of           *)
(* ConflictEvaluationAgent and the duplicate handling of CalendarAgent.    *)
(*                                                                         *)
(* A time string "HH:MM" is the pair <<H, M>>; a date string is a day      *)
(* number; a datetime is a number of minutes.  An event_id is a positive   *)
(* number, None is 0.  A ScheduleItem is a record; the schedule is a       *)
(* sequence of them, and a request's original_event is a position of it    *)
(* (0 when the event was not resolved).  CollaborationAgent queues change  *)
(* requests and reschedules batches of events through the two agents.      *)
(***************************************************************************)
EXTENDS Integers, Sequences, FiniteSets, TLC

VARIABLES current_schedule, aliased, calendar_agent, conflict_agent,
          collaboration_agent, pending_changes, ops, pc, last

vars == <<current_schedule, aliased, calendar_agent, conflict_agent,
          collaboration_agent, pending_changes, ops, pc, last>>

\* ---------------------------------------------------------------- bounds
MaxLen == 2
MaxOps == 2

\* ------------------------------------------------------------- constants
MinutesPerHour == 60
MinutesPerDay == 1440

NoId == 0
NoDate == 0
NoTime == <<-1, -1>>
\* a time string that "%H:%M" does not parse, "25:00"
BadTime == <<25, 0>>
NoTarget == 0

\* ------------------------------------------------------------ data model
ScheduleItem(c, l, d, s, e, id) ==
    [course |-> c, event_type |-> "other", location |-> l, date |-> d,
     start_time |-> s, end_time |-> e, event_id |-> id]

NoEvent == ScheduleItem("", "", NoDate, NoTime, NoTime, NoId)

\* str.lower() on the strings the model uses
Lower(s) ==
    CASE s = "MATH" -> "math"
      [] s = "ART" -> "art"
      [] s = "R1" -> "r1"
      [] s = "R2" -> "r2"
      [] OTHER -> s

\* datetime.strptime(t, "%H:%M"): minutes since 1900-01-01 00:00
Strptime(t) == t[1] * MinutesPerHour + t[2]

\* datetime.strftime("%H:%M"): the time of day only, the day is dropped
Strftime(dt) ==
    <<(dt % MinutesPerDay) \div MinutesPerHour, dt % MinutesPerHour>>

\* datetime.strptime(f"{date} {time}", "%Y-%m-%d %H:%M")
DateTime(d, t) == d * MinutesPerDay + Strptime(t)

\* python truthiness of an optional string / id / time
Truthy(s) == s # ""
HasTime(t) == t # NoTime

\* strptime accepts the time string: hours 00-23, minutes 00-59; None and
\* any other string raise
ParseOk(t) == t[1] \in 0..23 /\ t[2] \in 0..59

\* --------------------------------------------------- Conflict Detector
NoConflict == [conflict_type |-> "none", event_a |-> NoEvent,
               event_b |-> NoEvent, severity |-> "none"]

Conflict(t, a, b, sev) ==
    [conflict_type |-> t, event_a |-> a, event_b |-> b, severity |-> sev]

\* mutant of check_pair_conflict: the double-booking rule is left out
check_pair_conflict_without_double(event_a, event_b) ==
    LET a_start == DateTime(event_a.date, event_a.start_time)
        a_end == DateTime(event_a.date, event_a.end_time)
        b_start == DateTime(event_b.date, event_b.start_time)
        b_end == DateTime(event_b.date, event_b.end_time)
    IN  IF a_start < b_end /\ b_start < a_end
        THEN [conflict_type |-> "time_overlap", event_a |-> event_a,
              event_b |-> event_b, severity |-> "high"]
        ELSE NoConflict

check_pair_conflict(event_a, event_b) ==
    LET a_start == DateTime(event_a.date, event_a.start_time)
        a_end == DateTime(event_a.date, event_a.end_time)
        b_start == DateTime(event_b.date, event_b.start_time)
        b_end == DateTime(event_b.date, event_b.end_time)
        parsed == /\ ParseOk(event_a.start_time) /\ ParseOk(event_a.end_time)
                  /\ ParseOk(event_b.start_time) /\ ParseOk(event_b.end_time)
    IN  IF ~parsed
        THEN NoConflict
        ELSE IF a_start = b_start /\ a_end = b_end
        THEN Conflict("double_booking", event_a, event_b, "high")
        ELSE IF a_start < b_end /\ b_start < a_end
        THEN Conflict("time_overlap", event_a, event_b, "high")
        ELSE IF a_end = b_start /\ Truthy(event_a.location)
                /\ Truthy(event_b.location)
                /\ Lower(event_a.location) # Lower(event_b.location)
        THEN Conflict("back_to_back", event_a, event_b, "medium")
        ELSE NoConflict

\* mutant of PairConflicts: the date test is left out and the candidate is
\* compared as if it were on the existing event's day
RECURSIVE PairConflictsAnyDate(_, _)
PairConflictsAnyDate(new_event, schedule) ==
    IF schedule = <<>> THEN <<>>
    ELSE LET existing == Head(schedule)
             rest == PairConflictsAnyDate(new_event, Tail(schedule))
             c == check_pair_conflict(
                      [new_event EXCEPT !.date = existing.date], existing)
         IN  IF c # NoConflict
             THEN <<Conflict(c.conflict_type, new_event, existing,
                             c.severity)>> \o rest
             ELSE rest

\* the loop of check_new_event_conflicts (lines 143-147)
RECURSIVE PairConflicts(_, _)
PairConflicts(new_event, schedule) ==
    IF schedule = <<>> THEN <<>>
    ELSE LET existing == Head(schedule)
             rest == PairConflicts(new_event, Tail(schedule))
             c == check_pair_conflict(new_event, existing)
         IN  IF existing.date = new_event.date /\ c # NoConflict
             THEN <<c>> \o rest
             ELSE rest

\* `existing_schedule or self.existing_events`: an empty list is falsy
check_new_event_conflicts(new_event, existing_schedule, stored) ==
    PairConflicts(new_event,
                  IF existing_schedule # <<>> THEN existing_schedule
                  ELSE stored)

\* the sort key (x.date, x.start_time): "HH:MM" strings order as their times
KeyLess(a, b) ==
    \/ a.date < b.date
    \/ a.date = b.date /\ Strptime(a.start_time) < Strptime(b.start_time)

\* one step of a stable insertion: e goes behind every element not after it
RECURSIVE Insert(_, _)
Insert(e, sorted) ==
    IF sorted = <<>> THEN <<e>>
    ELSE IF KeyLess(e, Head(sorted)) THEN <<e>> \o sorted
    ELSE <<Head(sorted)>> \o Insert(e, Tail(sorted))

\* mutant of Sorted: the events stay in insertion order
Unsorted(events) == events

\* sorted(events, key=lambda x: (x.date, x.start_time)), a stable sort
RECURSIVE Sorted(_)
Sorted(events) ==
    IF events = <<>> THEN <<>>
    ELSE Insert(events[Len(events)], Sorted(SubSeq(events, 1, Len(events) - 1)))

\* mutant of ScanPairs: every ordered pair is visited, each pair twice
RECURSIVE ScanOrderedPairs(_, _, _)
ScanOrderedPairs(s, i, j) ==
    IF i > Len(s) THEN <<>>
    ELSE IF j > Len(s) THEN ScanOrderedPairs(s, i + 1, 1)
    ELSE LET c == check_pair_conflict(s[i], s[j])
         IN  (IF i # j /\ s[i].date = s[j].date /\ c # NoConflict
              THEN <<c>> ELSE <<>>)
             \o ScanOrderedPairs(s, i, j + 1)

\* the double loop of check_conflicts (lines 68-79), from the pair (i, j) on
RECURSIVE ScanPairs(_, _, _)
ScanPairs(s, i, j) ==
    IF i > Len(s) THEN <<>>
    ELSE IF j > Len(s) THEN ScanPairs(s, i + 1, i + 2)
    ELSE LET c == check_pair_conflict(s[i], s[j])
         IN  (IF s[i].date = s[j].date /\ c # NoConflict
              THEN <<c>> ELSE <<>>)
             \o ScanPairs(s, i, j + 1)

\* ConflictEvaluationAgent.check_conflicts: `schedule or self.existing_events`
check_conflicts(schedule, stored) ==
    LET events == IF schedule # <<>> THEN schedule ELSE stored
    IN  ScanPairs(Sorted(events), 1, 2)

\* --------------------------------------------------- Free-Slot Finder
\* the day window "08:00" to "20:00" (lines 230-231)
DayStart == <<8, 0>>
DayEnd == <<20, 0>>

\* mutant of Later: the cursor is set to the end of the event
Latter(x, y) == y

\* max(current_time, event_end)
Later(x, y) == IF x >= y THEN x ELSE y

Slot(from, to) == <<Strftime(from), Strftime(to)>>

\* mutant of Walk: a gap has to be longer than the duration asked for
RECURSIVE WalkStrict(_, _, _, _)
WalkStrict(day_events, date, current_time, duration_minutes) ==
    IF day_events = <<>>
    THEN IF DateTime(date, DayEnd) - current_time > duration_minutes
         THEN <<Slot(current_time, DateTime(date, DayEnd))>>
         ELSE <<>>
    ELSE LET event == Head(day_events)
             event_start == DateTime(date, event.start_time)
             event_end == DateTime(date, event.end_time)
         IN  (IF event_start - current_time > duration_minutes
              THEN <<Slot(current_time, event_start)>> ELSE <<>>)
             \o WalkStrict(Tail(day_events), date,
                           Later(current_time, event_end), duration_minutes)

\* the loop of find_free_slots over the sorted events of the day (lines
\* 235-258): an event whose time does not parse is passed over
RECURSIVE Walk(_, _, _, _)
Walk(day_events, date, current_time, duration_minutes) ==
    IF day_events = <<>>
    THEN IF DateTime(date, DayEnd) - current_time >= duration_minutes
         THEN <<Slot(current_time, DateTime(date, DayEnd))>>
         ELSE <<>>
    ELSE LET event == Head(day_events)
             event_start == DateTime(date, event.start_time)
             event_end == DateTime(date, event.end_time)
         IN  IF ~ParseOk(event.start_time) \/ ~ParseOk(event.end_time)
             THEN Walk(Tail(day_events), date, current_time, duration_minutes)
             ELSE (IF event_start - current_time >= duration_minutes
                   THEN <<Slot(current_time, event_start)>> ELSE <<>>)
                  \o Walk(Tail(day_events), date,
                          Later(current_time, event_end), duration_minutes)

\* mutant of find_free_slots: the events of every date are walked
find_free_slots_of_all_dates(schedule, date, duration_minutes) ==
    Walk(Sorted(SelectSeq(schedule, LAMBDA e : TRUE)), date,
         DateTime(date, DayStart), duration_minutes)

\* ConflictEvaluationAgent.find_free_slots; the events of one date sort by
\* start_time as Sorted sorts them
find_free_slots(schedule, date, duration_minutes) ==
    Walk(Sorted(SelectSeq(schedule, LAMBDA e : e.date = date)), date,
         DateTime(date, DayStart), duration_minutes)

\* ------------------------------------------------------ Calendar Store
\* One store call in the trace of an execution: <<operation, outcome>>
Step(op, detail) == <<op, detail>>
Outcome(ok) == IF ok THEN "ok" ELSE "fail"

\* mutant of create_event_internal: the failed insert still yields an id
create_event_internal_unchecked(env) ==
    [event_id |-> env.new_id,
     trace |-> <<Step("store.insert", Outcome(env.create_ok))>>]

\* CalendarAgent._create_event_internal: the new id, or None on failure
create_event_internal(env) ==
    [event_id |-> IF env.create_ok THEN env.new_id ELSE NoId,
     trace |-> <<Step("store.insert", Outcome(env.create_ok))>>]

\* CalendarAgent.create_event_with_duplicate_handling, auto_mode = None;
\* env.dup is the answer of check_duplicate, env.choice the typed choice
create_event_with_duplicate_handling(env) ==
    LET choice == IF env.choice = "EOF" THEN "1" ELSE env.choice
        created == create_event_internal(env)
    IN  IF env.dup
        THEN LET asked == <<Step("store.check_duplicate", "found"),
                            Step("resolve", env.choice)>>
             IN  IF choice \in {"1", "old", "existing"}
                 THEN [event_id |-> env.existing_id, action |-> "kept_existing",
                       trace |-> asked]
                 ELSE IF choice \in {"2", "new", "replace"}
                 THEN [event_id |-> created.event_id,
                       action |-> IF created.event_id # NoId
                                  THEN "replaced" ELSE "error",
                       trace |-> asked
                           \o <<Step("store.delete", Outcome(env.delete_ok))>>
                           \o created.trace]
                 ELSE IF choice \in {"3", "both"}
                 THEN [event_id |-> created.event_id,
                       action |-> IF created.event_id # NoId
                                  THEN "created_both" ELSE "error",
                       trace |-> asked \o created.trace]
                 ELSE [event_id |-> NoId, action |-> "cancelled",
                       trace |-> asked]
        ELSE [event_id |-> created.event_id,
              action |-> IF created.event_id # NoId THEN "created" ELSE "error",
              trace |-> <<Step("store.check_duplicate", "none")>>
                          \o created.trace]

\* CalendarAgent.create_event(item, check_duplicates=True)
create_event(env) ==
    LET r == create_event_with_duplicate_handling(env)
    IN  [event_id |-> r.event_id, trace |-> r.trace]

\* CalendarAgent.delete_event / update_event: True on success
delete_event(env) ==
    [ok |-> env.delete_ok,
     trace |-> <<Step("store.delete", Outcome(env.delete_ok))>>]

update_event(env) ==
    [ok |-> env.update_ok,
     trace |-> <<Step("store.update", Outcome(env.update_ok))>>]

\* ----------------------------------------------------- Change Executor
Result(ok, skipped, msg, conflicts) ==
    [success |-> ok, skipped |-> skipped, message |-> msg,
     conflicts |-> conflicts]

\* no result: nothing was called, or the call raised instead of returning
NoResult == Result(FALSE, FALSE, "", <<>>)

\* an exception leaves execute_change; it is the last step of the trace
Raise == <<Step("raise", "exception")>>

\* mutant of SameEvent: the titles are compared case-sensitively
SameEventCaseSensitive(existing, new_event) ==
    /\ existing.course = new_event.course
    /\ existing.date = new_event.date
    /\ existing.start_time = new_event.start_time

\* the comparison of execute_change's duplicate check (lines 496-498)
SameEvent(existing, new_event) ==
    /\ Lower(existing.course) = Lower(new_event.course)
    /\ existing.date = new_event.date
    /\ existing.start_time = new_event.start_time

AlreadyExists(schedule, new_event) ==
    \E i \in 1..Len(schedule) : SameEvent(schedule[i], new_event)

\* the request's original_event, None as NoEvent
Original(schedule, req) ==
    IF req.original_event = NoTarget THEN NoEvent
    ELSE schedule[req.original_event]

\* new_end_dt = new_start_dt + original_duration, formatted "%H:%M"
PreservedEnd(original, new_start) ==
    Strftime(Strptime(new_start)
             + (Strptime(original.end_time) - Strptime(original.start_time)))

\* `change_request.new_details.get("date") or original.date`
NewDate(original, req) ==
    IF req.date # NoDate THEN req.date ELSE original.date

\* the temporary event of the conflict check (lines 512-538); event_id None
TemporaryEvent(original, req) ==
    LET new_start_time == IF HasTime(req.start_time) THEN req.start_time
                          ELSE original.start_time
        new_end_time ==
            IF HasTime(req.start_time) /\ ~HasTime(req.end_time)
            THEN PreservedEnd(original, new_start_time)
            ELSE IF ~HasTime(req.end_time) THEN original.end_time
            ELSE req.end_time
    IN  [original EXCEPT !.date = NewDate(original, req),
                         !.start_time = new_start_time,
                         !.end_time = new_end_time,
                         !.event_id = NoId]

\* strptime of the target's own start and end (lines 516-517, 601-602)
OriginalTimesRaise(original) ==
    ~ParseOk(original.start_time) \/ ~ParseOk(original.end_time)

\* strptime of the new start when the end is to be derived (lines 525, 615)
NewStartRaises(req) ==
    HasTime(req.start_time) /\ ~HasTime(req.end_time)
    /\ ~ParseOk(req.start_time)

\* the in-place update of the target (lines 605-623)
RescheduledEvent(original, req) ==
    LET end_time ==
            IF HasTime(req.start_time)
            THEN IF ~HasTime(req.end_time)
                 THEN PreservedEnd(original, req.start_time)
                 ELSE req.end_time
            ELSE IF HasTime(req.end_time) THEN req.end_time
                 ELSE original.end_time
    IN  [original EXCEPT !.date = NewDate(original, req),
                         !.start_time = IF HasTime(req.start_time)
                                        THEN req.start_time
                                        ELSE original.start_time,
                         !.end_time = end_time]

\* mutant of ModifiedEvent: a date carried by the request is taken as well
ModifiedEventWithDate(original, req) ==
    [original EXCEPT !.location = IF Truthy(req.location) THEN req.location
                                  ELSE original.location,
                     !.course = IF Truthy(req.course) THEN req.course
                                ELSE original.course,
                     !.date = NewDate(original, req)]

\* the in-place update of a Modify (lines 689-692)
ModifiedEvent(original, req) ==
    [original EXCEPT !.location = IF Truthy(req.location) THEN req.location
                                  ELSE original.location,
                     !.course = IF Truthy(req.course) THEN req.course
                                ELSE original.course]

\* list.remove(x): drops the first element equal to x
RECURSIVE RemoveFirst(_, _)
RemoveFirst(schedule, x) ==
    IF schedule = <<>> THEN <<>>
    ELSE IF Head(schedule) = x THEN Tail(schedule)
    ELSE <<Head(schedule)>> \o RemoveFirst(Tail(schedule), x)

\* the event checked for conflicts (lines 508-540), NoEvent when there is none
CandidateEvent(schedule, req) ==
    IF req.change_type = "add" THEN req.new_event
    ELSE IF req.original_event # NoTarget
    THEN TemporaryEvent(schedule[req.original_event], req)
    ELSE NoEvent

\* [e for e in self.current_schedule if e != original_event] (line 544):
\* dataclass equality, so every event equal to the target is left out
LocalOthers(schedule, req) ==
    LET original == Original(schedule, req)
    IN  SelectSeq(schedule, LAMBDA e : e # original)

\* check_schedule (lines 544-552): the local others, or the store's events
\* of the day when there are none
CheckSchedule(schedule, req, env, store) ==
    LET original == Original(schedule, req)
        local == LocalOthers(schedule, req)
    IN  IF local = <<>> /\ store
        THEN SelectSeq(env.remote, LAMBDA e : e.event_id # original.event_id)
        ELSE local

\* mutant of Declines: the test of the answer is inverted
DeclinesInverted(answer) == answer \in {"y", "yes"}

\* `user_input not in ['y', 'yes']`; EOFError proceeds (lines 566-575)
Declines(answer) == answer \notin {"y", "yes", "EOF"}

\* the strptime calls that build the temporary event raise (lines 516-525)
TemporaryEventRaises(schedule, req, detector) ==
    /\ req.change_type = "reschedule"
    /\ detector
    /\ req.original_event # NoTarget
    /\ \/ OriginalTimesRaise(Original(schedule, req))
       \/ NewStartRaises(req)

\* what the conflict check leaves behind: the conflicts, whether the user
\* declined, and the steps taken (lines 547-575)
ConflictOutcome(raised, ran, queried, conflicts, asked, answer) ==
    [conflicts |-> conflicts,
     raised |-> raised,
     declined |-> asked /\ Declines(answer),
     trace |-> (IF queried THEN <<Step("store.get_events", "ok")>> ELSE <<>>)
               \o (IF ran THEN <<Step("detect", "")>> ELSE <<>>)
               \o (IF asked THEN <<Step("confirm", answer)>> ELSE <<>>)]

\* the check of the event new_event, when there is one (lines 542-563)
ConflictCheck(ran, others, conflicts, auto_confirm, env, store) ==
    ConflictOutcome(FALSE, ran, ran /\ others = <<>> /\ store, conflicts,
                    conflicts # <<>> /\ ~auto_confirm, env.answer)

\* the conflict check and its confirmation (lines 506-575)
ConflictPhase(schedule, stored, req, auto_confirm, env, store, detector) ==
    IF TemporaryEventRaises(schedule, req, detector)
    THEN ConflictOutcome(TRUE, FALSE, FALSE, <<>>, FALSE, env.answer)
    ELSE IF /\ req.change_type \in {"reschedule", "add"}
            /\ detector
            /\ CandidateEvent(schedule, req) # NoEvent
    THEN ConflictCheck(TRUE, LocalOthers(schedule, req),
                       check_new_event_conflicts(
                           CandidateEvent(schedule, req),
                           CheckSchedule(schedule, req, env, store), stored),
                       auto_confirm, env, store)
    ELSE ConflictOutcome(FALSE, FALSE, FALSE, <<>>, FALSE, env.answer)

\* the listing of _get_available_events decides between two messages
NotFoundMessage(schedule) ==
    IF schedule # <<>> THEN "not_found_listing" ELSE "no_events"

Applied(schedule, ok, skipped, msg, trace) ==
    [schedule |-> schedule, success |-> ok, skipped |-> skipped,
     message |-> msg, trace |-> trace, raised |-> FALSE]

\* the apply step raised, leaving the schedule as mutated so far
Failed(schedule, trace) ==
    [schedule |-> schedule, success |-> FALSE, skipped |-> FALSE,
     message |-> "", trace |-> trace \o Raise, raised |-> TRUE]

\* mutant of ApplyCancel: the event is removed locally before the store is
\* asked, whatever the store answers
ApplyCancelLocalFirst(schedule, req, env, store) ==
    LET original == Original(schedule, req)
        d == delete_event(env)
    IN  IF req.original_event = NoTarget
        THEN Applied(schedule, FALSE, FALSE, NotFoundMessage(schedule), <<>>)
        ELSE IF store /\ original.event_id # NoId
        THEN Applied(RemoveFirst(schedule, original), d.ok, FALSE,
                     IF d.ok THEN "cancelled" ELSE "cancel_failed",
                     <<Step("local.remove", "")>> \o d.trace)
        ELSE Applied(RemoveFirst(schedule, original), TRUE, FALSE, "cancelled",
                     <<Step("local.remove", "")>>)

\* lines 578-592
ApplyCancel(schedule, req, env, store) ==
    LET original == Original(schedule, req)
    IN  IF req.original_event = NoTarget
        THEN Applied(schedule, FALSE, FALSE, NotFoundMessage(schedule), <<>>)
        ELSE IF store /\ original.event_id # NoId
        THEN LET d == delete_event(env)
             IN  Applied(schedule, d.ok, FALSE,
                         IF d.ok THEN "cancelled" ELSE "cancel_failed", d.trace)
        ELSE Applied(RemoveFirst(schedule, original), TRUE, FALSE, "cancelled",
                     <<Step("local.remove", "")>>)

\* lines 594-634
ApplyReschedule(schedule, req, env, store) ==
    LET original == Original(schedule, req)
        updated == RescheduledEvent(original, req)
        mutated == [schedule EXCEPT ![req.original_event] = updated]
        \* date and start are already assigned when line 615 raises
        half == [schedule EXCEPT ![req.original_event] =
                    [original EXCEPT !.date = updated.date,
                                     !.start_time = updated.start_time]]
    IN  IF req.original_event = NoTarget
        THEN Applied(schedule, FALSE, FALSE, NotFoundMessage(schedule), <<>>)
        ELSE IF OriginalTimesRaise(original)
        THEN Failed(schedule, <<>>)
        ELSE IF NewStartRaises(req)
        THEN Failed(half, <<Step("local.update", "")>>)
        ELSE IF store /\ updated.event_id # NoId
        THEN LET u == update_event(env)
             IN  Applied(mutated, u.ok, FALSE,
                         IF u.ok THEN "rescheduled" ELSE "reschedule_failed",
                         <<Step("local.update", "")>> \o u.trace)
        ELSE Applied(mutated, TRUE, FALSE, "rescheduled",
                     <<Step("local.update", "")>>)

\* mutant of ApplyAdd: the new event is put in front of the schedule
ApplyAddInFront(schedule, req, env, store) ==
    LET new_event == req.new_event
        c == create_event(env)
    IN  IF req.clarification
        THEN Applied(schedule, FALSE, FALSE, "clarification", <<>>)
        ELSE IF new_event = NoEvent
        THEN Applied(schedule, FALSE, FALSE, "no_details", <<>>)
        ELSE IF AlreadyExists(schedule, new_event)
        THEN Applied(schedule, FALSE, TRUE, "skipped_exists", <<>>)
        ELSE IF store
        THEN IF c.event_id # NoId
             THEN Applied(<<[new_event EXCEPT !.event_id = c.event_id]>>
                              \o schedule,
                          TRUE, FALSE, "added",
                          c.trace \o <<Step("local.append", "")>>)
             ELSE Applied(schedule, FALSE, FALSE, "add_failed", c.trace)
        ELSE Applied(<<new_event>> \o schedule, TRUE, FALSE, "added",
                     <<Step("local.append", "")>>)

\* lines 636-677
ApplyAdd(schedule, req, env, store) ==
    LET new_event == req.new_event
        already_exists == AlreadyExists(schedule, new_event)
        c == create_event(env)
    IN  IF req.clarification
        THEN Applied(schedule, FALSE, FALSE, "clarification", <<>>)
        ELSE IF new_event = NoEvent
        THEN Applied(schedule, FALSE, FALSE, "no_details", <<>>)
        ELSE IF already_exists
        THEN Applied(schedule, FALSE, TRUE, "skipped_exists", <<>>)
        ELSE IF store
        THEN IF c.event_id # NoId
             THEN Applied(Append(schedule,
                                 [new_event EXCEPT !.event_id = c.event_id]),
                          TRUE, FALSE, "added",
                          c.trace \o <<Step("local.append", "")>>)
             ELSE Applied(schedule, FALSE, FALSE, "add_failed", c.trace)
        ELSE Applied(Append(schedule, new_event), TRUE, FALSE, "added",
                     <<Step("local.append", "")>>)

\* lines 679-702
ApplyModify(schedule, req, env, store) ==
    LET original == Original(schedule, req)
        updated == ModifiedEvent(original, req)
        mutated == [schedule EXCEPT ![req.original_event] = updated]
    IN  IF req.clarification
        THEN Applied(schedule, FALSE, FALSE, "clarification", <<>>)
        ELSE IF req.original_event = NoTarget
        THEN Applied(schedule, FALSE, FALSE, "not_found", <<>>)
        ELSE IF store /\ updated.event_id # NoId
        THEN LET u == update_event(env)
             IN  Applied(mutated, u.ok, FALSE,
                         IF u.ok THEN "modified" ELSE "modify_failed",
                         <<Step("local.update", "")>> \o u.trace)
        ELSE Applied(mutated, TRUE, FALSE, "modified",
                     <<Step("local.update", "")>>)

\* the result of a declined conflict confirmation (lines 567-571)
DeclinedResult(conflicts) ==
    Result(FALSE, TRUE, "cancelled_by_user", conflicts)

\* the branch of the change type (lines 578-702)
ApplyChange(schedule, req, env, store) ==
    CASE req.change_type = "cancel" -> ApplyCancel(schedule, req, env, store)
      [] req.change_type = "reschedule" ->
            ApplyReschedule(schedule, req, env, store)
      [] req.change_type = "add" -> ApplyAdd(schedule, req, env, store)
      [] req.change_type = "modify" -> ApplyModify(schedule, req, env, store)

\* the local duplicate check of an Add (lines 491-503)
DuplicateCheck(schedule, req) ==
    IF req.change_type = "add" /\ req.new_event # NoEvent
    THEN <<Step("duplicate_check",
                IF AlreadyExists(schedule, req.new_event)
                THEN "hit" ELSE "miss")>>
    ELSE <<>>

\* what execute_change leaves: the check for duplicates returns first, then
\* the conflict check raises or is declined, then the change is applied
Conclude(schedule, checked, cp, a) ==
    IF checked = <<Step("duplicate_check", "hit")>>
    THEN [schedule |-> schedule,
          result |-> Result(FALSE, TRUE, "duplicate", <<>>),
          trace |-> checked]
    ELSE IF cp.raised
    THEN [schedule |-> schedule, result |-> NoResult,
          trace |-> checked \o Raise]
    ELSE IF cp.declined
    THEN [schedule |-> schedule,
          result |-> DeclinedResult(cp.conflicts),
          trace |-> checked \o cp.trace]
    ELSE IF a.raised
    THEN [schedule |-> a.schedule, result |-> NoResult,
          trace |-> checked \o cp.trace \o a.trace]
    ELSE [schedule |-> a.schedule,
          result |-> Result(a.success, a.skipped, a.message, cp.conflicts),
          trace |-> checked \o cp.trace \o a.trace]

\* ChangeManagementAgent.execute_change: the schedule it leaves, the result
\* it returns and the steps it took
execute_change(schedule, stored, req, auto_confirm, env, store, detector) ==
    Conclude(schedule, DuplicateCheck(schedule, req),
             ConflictPhase(schedule, stored, req, auto_confirm, env, store,
                           detector),
             ApplyChange(schedule, req, env, store))

\* ------------------------------------------------- Batch Coordinator
\* a ChangeRequest: its type, its original_event and its new_details
Request(kind, target, new_event, clar, d, s, e, loc, c) ==
    [change_type |-> kind, original_event |-> target, new_event |-> new_event,
     clarification |-> clar, date |-> d, start_time |-> s, end_time |-> e,
     location |-> loc, course |-> c]

\* the call of execute_change ended in an exception
Raised(x) ==
    x.trace # <<>> /\ x.trace[Len(x.trace)] = Step("raise", "exception")

\* _get_duration's value when a time does not parse
DefaultDuration == 60

\* _get_duration: end minus start in minutes; any exception gives the default
get_duration(event) ==
    IF ParseOk(event.start_time) /\ ParseOk(event.end_time)
    THEN Strptime(event.end_time) - Strptime(event.start_time)
    ELSE DefaultDuration

\* _add_minutes: strptime, plus timedelta, strftime("%H:%M")
add_minutes(time_str, minutes) == Strftime(Strptime(time_str) + minutes)

\* find_best_slot returned None
NoSlot == [start |-> NoTime, end |-> NoTime]

\* the free slots whose start hour lies in from..to, in the list's order
Preferred(free_slots, from, to) ==
    SelectSeq(free_slots, LAMBDA s : s[1][1] \in from..to)

\* the choice among the free slots: the first that starts in the morning,
\* else the first that starts in the afternoon, else the first (lines 176-190)
BestOf(free_slots, duration_minutes) ==
    LET chosen ==
            IF Preferred(free_slots, 9, 11) # <<>>
            THEN Preferred(free_slots, 9, 11)[1]
            ELSE IF Preferred(free_slots, 13, 16) # <<>>
            THEN Preferred(free_slots, 13, 16)[1]
            ELSE free_slots[1]
    IN  [start |-> chosen[1],
         end |-> add_minutes(chosen[1], duration_minutes)]

\* CollaborationAgent.find_best_slot; detector is its conflict_agent
find_best_slot(schedule, date, duration_minutes, detector) ==
    IF ~detector THEN NoSlot
    ELSE IF find_free_slots(schedule, date, duration_minutes) = <<>>
    THEN NoSlot
    ELSE BestOf(find_free_slots(schedule, date, duration_minutes),
                duration_minutes)

\* mutant of score_slot: the test of the afternoon hours 14 to 16 is left out
score_slot_without_afternoon(start_time) ==
    LET hour == start_time[1]
    IN  IF 9 <= hour /\ hour <= 11 THEN 100
        ELSE IF 12 <= hour /\ hour <= 17 THEN 60
        ELSE IF 8 <= hour /\ hour < 9 THEN 40
        ELSE 20

\* _score_slot: the score of the hour int(start_time.split(":")[0])
score_slot(start_time) ==
    LET hour == start_time[1]
    IN  IF 9 <= hour /\ hour <= 11 THEN 100
        ELSE IF 14 <= hour /\ hour <= 16 THEN 80
        ELSE IF 12 <= hour /\ hour <= 17 THEN 60
        ELSE IF 8 <= hour /\ hour < 9 THEN 40
        ELSE 20

\* the loop over the preferred dates (lines 295-303): a date with a slot
\* gives an option carrying the slot's score, a date without one gives none
RECURSIVE Options(_, _, _, _)
Options(schedule, preferred_times, duration, detector) ==
    IF preferred_times = <<>> THEN <<>>
    ELSE (IF find_best_slot(schedule, Head(preferred_times), duration,
                            detector) # NoSlot
          THEN LET slot == find_best_slot(schedule, Head(preferred_times),
                                          duration, detector)
               IN <<[date |-> Head(preferred_times), start |-> slot.start,
                     end |-> slot.end, score |-> score_slot(slot.start)]>>
          ELSE <<>>)
         \o Options(schedule, Tail(preferred_times), duration, detector)

\* the place of an option in a list sorted by descending score, behind the
\* options of the same score already there
RECURSIVE InsertByScore(_, _)
InsertByScore(option, sorted) ==
    IF sorted = <<>> THEN <<option>>
    ELSE IF option.score > Head(sorted).score THEN <<option>> \o sorted
    ELSE <<Head(sorted)>> \o InsertByScore(option, Tail(sorted))

\* mutant of SortedByScore: the options stay in the order of the dates
InOrderOfDates(options) == options

\* options.sort(key=lambda x: x["score"], reverse=True), a stable sort
RECURSIVE SortedByScore(_)
SortedByScore(options) ==
    IF options = <<>> THEN <<>>
    ELSE InsertByScore(options[Len(options)],
                       SortedByScore(SubSeq(options, 1, Len(options) - 1)))

\* the result of negotiate_time for the options found (lines 305-319): the
\* best option is options[0] and the alternatives are options[1:3]; without
\* an option there is no best option
Negotiated(options) ==
    IF options # <<>>
    THEN [success |-> TRUE, best_option |-> SortedByScore(options)[1],
          alternatives |->
              SubSeq(SortedByScore(options), 2,
                     IF Len(options) < 3 THEN Len(options) ELSE 3)]
    ELSE [success |-> FALSE,
          best_option |-> [date |-> NoDate, start |-> NoTime,
                           end |-> NoTime, score |-> 0],
          alternatives |-> <<>>]

\* CollaborationAgent.negotiate_time
negotiate_time(schedule, preferred_times, duration, detector) ==
    Negotiated(Options(schedule, preferred_times, duration, detector))

\* mutant of SortedByDuration: the events are taken in the order given
InGivenOrder(schedule, events) == events

\* the place of event i in a list sorted by descending duration, behind the
\* events of the same duration already there
RECURSIVE InsertByDuration(_, _, _)
InsertByDuration(schedule, i, sorted) ==
    IF sorted = <<>> THEN <<i>>
    ELSE IF get_duration(schedule[Head(sorted)]) < get_duration(schedule[i])
    THEN <<i>> \o sorted
    ELSE <<Head(sorted)>> \o InsertByDuration(schedule, i, Tail(sorted))

\* sorted(events, key=_get_duration, reverse=True): stable, longest first;
\* the events are positions of the schedule
RECURSIVE SortedByDuration(_, _)
SortedByDuration(schedule, events) ==
    IF events = <<>> THEN <<>>
    ELSE InsertByDuration(schedule, events[Len(events)],
                          SortedByDuration(schedule,
                                           SubSeq(events, 1, Len(events) - 1)))

\* the Reschedule request of one event of the batch (lines 231-240)
BatchChange(i, target_date, slot) ==
    Request("reschedule", i, NoEvent, FALSE, target_date, slot.start,
            slot["end"], "", "")

\* lines 247-249
Placed(schedule, i, target_date, slot) ==
    [schedule EXCEPT ![i] = [@ EXCEPT !.date = target_date,
                                      !.start_time = slot.start,
                                      !.end_time = slot["end"]]]

\* what one turn of the loop did: the event, its duration, the schedule at
\* its turn, the slot found, whether a request was executed and its result
Turn(i, b, slot, executed, x) ==
    [event |-> i, duration |-> get_duration(b.schedule[i]),
     before |-> b.schedule, slot |-> slot, executed |-> executed,
     result |-> x.result, trace |-> x.trace]

NotExecuted == [result |-> NoResult, trace |-> <<>>]

\* one entry of results["details"]
Detail(event, slot, message) ==
    [event |-> event.course, slot |-> slot, result |-> message]

\* one turn of batch_reschedule's loop (lines 226-265); x is what
\* execute_change does with the turn's request
BatchTurn(b, i, target_date, slot, change_agent, x) ==
    IF slot = NoSlot
    THEN [b EXCEPT !.failed = @ + 1,
                   !.details = Append(@, Detail(b.schedule[i], NoSlot,
                                                "no_slot")),
                   !.turns = Append(@, Turn(i, b, slot, FALSE, NotExecuted))]
    ELSE IF ~change_agent
    THEN [b EXCEPT !.turns = Append(@, Turn(i, b, slot, FALSE, NotExecuted))]
    ELSE IF Raised(x)
    THEN [b EXCEPT !.schedule = x.schedule,
                   !.raised = TRUE,
                   !.turns = Append(@, Turn(i, b, slot, TRUE, x))]
    ELSE IF x.result.success
    THEN [b EXCEPT !.schedule = Placed(x.schedule, i, target_date, slot),
                   !.rescheduled = @ + 1,
                   !.details = Append(@, Detail(b.schedule[i], slot,
                                                x.result.message)),
                   !.turns = Append(@, Turn(i, b, slot, TRUE, x))]
    ELSE [b EXCEPT !.schedule = x.schedule,
                   !.failed = @ + 1,
                   !.success = FALSE,
                   !.details = Append(@, Detail(b.schedule[i], slot,
                                                x.result.message)),
                   !.turns = Append(@, Turn(i, b, slot, TRUE, x))]

\* the turn of event i against the schedule as the earlier turns left it
TurnOn(b, i, target_date, slot, env, agents, store, detector) ==
    BatchTurn(b, i, target_date, slot, agents.change_agent,
              execute_change(b.schedule, b.schedule,
                             BatchChange(i, target_date, slot), FALSE, env,
                             store, detector))

\* mutant of BatchTurns: every slot is searched in the schedule as it was
\* when the batch began
RECURSIVE BatchTurnsOnSnapshot(_, _, _, _, _, _, _)
BatchTurnsOnSnapshot(b, order, target_date, envs, agents, store, detector) ==
    IF order = <<>> \/ b.raised THEN b
    ELSE BatchTurnsOnSnapshot(
             TurnOn(b, Head(order), target_date,
                    find_best_slot(IF b.turns = <<>> THEN b.schedule
                                   ELSE b.turns[1].before,
                                   target_date,
                                   get_duration(b.schedule[Head(order)]),
                                   agents.conflict_agent),
                    Head(envs), agents, store, detector),
             Tail(order), target_date, Tail(envs), agents, store, detector)

\* the loop of batch_reschedule (lines 225-265); an exception of
\* execute_change ends it
RECURSIVE BatchTurns(_, _, _, _, _, _, _)
BatchTurns(b, order, target_date, envs, agents, store, detector) ==
    IF order = <<>> \/ b.raised THEN b
    ELSE BatchTurns(
             TurnOn(b, Head(order), target_date,
                    find_best_slot(b.schedule, target_date,
                                   get_duration(b.schedule[Head(order)]),
                                   agents.conflict_agent),
                    Head(envs), agents, store, detector),
             Tail(order), target_date, Tail(envs), agents, store, detector)

\* results as batch_reschedule initialises them (lines 215-220)
BatchStart(schedule) ==
    [schedule |-> schedule, success |-> TRUE, rescheduled |-> 0,
     failed |-> 0, details |-> <<>>, turns |-> <<>>, raised |-> FALSE]

\* CollaborationAgent.batch_reschedule(events, target_date, schedule): the
\* events are positions of the schedule, which is the change agent's list
batch_reschedule(events, target_date, schedule, envs, agents, store, detector) ==
    BatchTurns(BatchStart(schedule), SortedByDuration(schedule, events),
               target_date, envs, agents, store, detector)

\* ---------------------------------------------------------------- inputs
\* the events an Add can carry, not yet bound to the store: start < end, or
\* no end when the tool call left end_time out (lines 338-345)
NewEvents ==
    {ScheduleItem("math", "r1", 1, <<0, 0>>, <<8, 0>>, NoId),
     ScheduleItem("MATH", "r1", 1, <<0, 0>>, <<8, 0>>, NoId),
     ScheduleItem("art", "r1", 1, <<0, 0>>, <<8, 0>>, NoId),
     ScheduleItem("art", "r1", 1, <<8, 0>>, <<16, 0>>, NoId),
     ScheduleItem("art", "r1", 1, <<16, 0>>, NoTime, NoId)}

\* the event lists a parsed document can yield; the events read from an
\* image or a text document are not deduplicated, so a row read twice gives
\* two equal events
ParsedSchedules ==
    {<<ScheduleItem("math", "r1", 1, <<8, 0>>, <<16, 0>>, NoId)>>,
     <<ScheduleItem("math", "r1", 1, <<0, 0>>, <<8, 0>>, NoId),
       ScheduleItem("art", "r2", 1, <<8, 0>>, <<16, 0>>, NoId)>>,
     <<ScheduleItem("math", "r1", 1, <<8, 0>>, <<16, 0>>, NoId),
       ScheduleItem("math", "r1", 1, <<8, 0>>, <<16, 0>>, NoId)>>}

\* what the store's query of a day can return
RemoteLists ==
    {<<>>, <<ScheduleItem("art", "r2", 1, <<0, 0>>, <<16, 0>>, 2)>>}

Answers == {"y", "n", "EOF"}
Choices == {"1", "2", "3", "4", "EOF"}

AddRequests ==
    {Request("add", NoTarget, ev, FALSE, NoDate, NoTime, NoTime, "", "") :
        ev \in NewEvents \cup {NoEvent}}
    \cup {Request("add", NoTarget, NoEvent, TRUE, NoDate, NoTime, NoTime, "", "")}

CancelRequests(schedule) ==
    {Request("cancel", t, NoEvent, FALSE, NoDate, NoTime, NoTime, "", "") :
        t \in 0..Len(schedule)}

\* the new (start, end) of a Reschedule: none, start only, end only, both,
\* and a start that does not parse
NewTimes ==
    {<<NoTime, NoTime>>, <<<<8, 0>>, NoTime>>, <<<<16, 0>>, NoTime>>,
     <<NoTime, <<16, 0>>>>, <<<<8, 0>>, <<16, 0>>>>, <<BadTime, NoTime>>}

RescheduleRequests(schedule) ==
    {Request("reschedule", t, NoEvent, FALSE, d, w[1], w[2], "", "") :
        t \in 0..Len(schedule), d \in {NoDate, 2}, w \in NewTimes}

\* a clarification request carries no target (process_request, lines 285-291);
\* new_details is a dictionary and may carry a date, which a Modify does not
\* read
ModifyRequests(schedule) ==
    {Request("modify", t, NoEvent, FALSE, d, NoTime, NoTime, loc, crs) :
        t \in 0..Len(schedule), d \in {NoDate, 2}, loc \in {"", "r2"},
        crs \in {"", "ART"}}
    \cup {Request("modify", NoTarget, NoEvent, TRUE, NoDate, NoTime, NoTime,
                  "", "")}

\* the answers of the collaborators during one execution
Env(answer, dup, choice, create_ok, delete_ok, update_ok, remote) ==
    [answer |-> answer, dup |-> dup, choice |-> choice,
     create_ok |-> create_ok, delete_ok |-> delete_ok,
     update_ok |-> update_ok, new_id |-> 1, existing_id |-> 2,
     remote |-> remote]

NoEnv == Env("y", FALSE, "1", TRUE, TRUE, TRUE, <<>>)

\* the store's answers to one create_event: a call that is not made has
\* no outcome to choose
StoreAnswers ==
    {e \in {Env("y", d, c, co, do, TRUE, <<>>) :
                d \in BOOLEAN, c \in Choices, co \in BOOLEAN, do \in BOOLEAN} :
        /\ ~e.dup => e.choice = "1"
        /\ ~(e.dup /\ e.choice = "2") => e.delete_ok
        /\ (e.dup /\ e.choice \in {"1", "4", "EOF"}) => e.create_ok}

\* auto_confirm and the answer to the confirmation; with auto_confirm set
\* nothing is asked
Confirmations ==
    {<<TRUE, "y">>} \cup {<<FALSE, a>> : a \in Answers}

\* the store's query is answered only when it is made: with a store and no
\* local event to check against (lines 547-549)
Remotes(store, others) ==
    IF store /\ others = <<>> THEN RemoteLists ELSE {<<>>}

AddEnvs(store, others) ==
    IF store
    THEN {[e EXCEPT !.remote = r] :
             e \in StoreAnswers, r \in Remotes(store, others)}
    ELSE {NoEnv}

CancelEnvs(store) ==
    IF store THEN {[NoEnv EXCEPT !.delete_ok = do] : do \in BOOLEAN}
    ELSE {NoEnv}

RescheduleEnvs(store, others) ==
    IF store
    THEN {[NoEnv EXCEPT !.update_ok = uo, !.remote = r] :
             uo \in BOOLEAN, r \in Remotes(store, others)}
    ELSE {NoEnv}

ModifyEnvs(store) ==
    IF store THEN {[NoEnv EXCEPT !.update_ok = uo] : uo \in BOOLEAN}
    ELSE {NoEnv}

\* --------------------------------------------------------- state machine
NoRequest ==
    Request("none", NoTarget, NoEvent, FALSE, NoDate, NoTime, NoTime, "", "")

\* the last call of execute_change: its arguments, the collaborators'
\* answers, the schedule before it, its result and its steps
Last(op, req, auto_confirm, env, pre, result, trace) ==
    [op |-> op, req |-> req, auto_confirm |-> auto_confirm, env |-> env,
     pre |-> pre, result |-> result, trace |-> trace]

NoLast == Last("none", NoRequest, FALSE, NoEnv, <<>>, NoResult, <<>>)

\* the collaboration agent's references to the change agent and to the
\* conflict agent: None until they are handed in
Agents(change, conflict) ==
    [change_agent |-> change, conflict_agent |-> conflict]

\* Init: the agents as main wires them (set_conflict_agent always; the
\* calendar agent is the optional collaborator), no schedule loaded yet.
\* the conflict agent's stored list: the schedule itself after main's
\* set_schedule(events); set_events(events), else the constructor's []
StoredEvents == IF aliased THEN current_schedule ELSE <<>>

Init ==
    /\ current_schedule = <<>>
    /\ aliased = FALSE
    /\ calendar_agent \in BOOLEAN
    /\ conflict_agent = TRUE
    /\ collaboration_agent = Agents(TRUE, TRUE)
    /\ pending_changes = <<>>
    /\ ops = 0
    /\ pc = "idle"
    /\ last = NoLast

\* main.handle_file_upload: both agents receive the same list
SetSchedule ==
    /\ pc = "idle"
    /\ \E events \in ParsedSchedules : current_schedule' = events
    /\ aliased' = TRUE
    /\ UNCHANGED <<calendar_agent, conflict_agent, collaboration_agent,
                   pending_changes, ops, pc, last>>

\* the answers an execution consumed, as its trace shows
Consumed(env, trace) ==
    LET Has(op) == \E i \in 1..Len(trace) : trace[i][1] = op
    IN  Env(IF Has("confirm") THEN env.answer ELSE NoEnv.answer,
            IF Has("store.check_duplicate") THEN env.dup ELSE NoEnv.dup,
            IF Has("resolve") THEN env.choice ELSE NoEnv.choice,
            IF Has("store.insert") THEN env.create_ok ELSE NoEnv.create_ok,
            IF Has("store.delete") THEN env.delete_ok ELSE NoEnv.delete_ok,
            IF Has("store.update") THEN env.update_ok ELSE NoEnv.update_ok,
            IF Has("store.get_events") THEN env.remote ELSE NoEnv.remote)

\* the session accepts a request: no call is in progress
Idle == pc = "idle" /\ ops < MaxOps

\* one call of execute_change, from the call to the returned result; a
\* parsed schedule of MaxLen events can still take one more event
Execute(req, auto_confirm, env) ==
    LET r == execute_change(current_schedule, StoredEvents, req, auto_confirm,
                            env, calendar_agent, conflict_agent)
    IN  /\ Len(r.schedule) <= MaxLen + 1
        /\ current_schedule' = r.schedule
        /\ ops' = ops + 1
        /\ pc' = "returned"
        /\ last' = Last("execute", req, auto_confirm, Consumed(env, r.trace),
                        current_schedule, r.result, r.trace)
        /\ UNCHANGED <<aliased, calendar_agent, conflict_agent,
                       collaboration_agent, pending_changes>>

ExecuteAdd ==
    /\ Idle
    /\ \E req \in AddRequests, c \in Confirmations,
          env \in AddEnvs(calendar_agent, current_schedule) :
           Execute(req, c[1], [env EXCEPT !.answer = c[2]])

ExecuteCancel ==
    /\ Idle
    /\ \E req \in CancelRequests(current_schedule), auto_confirm \in BOOLEAN,
          env \in CancelEnvs(calendar_agent) :
           Execute(req, auto_confirm, env)

ExecuteReschedule ==
    /\ Idle
    /\ \E req \in RescheduleRequests(current_schedule), c \in Confirmations :
           \E env \in RescheduleEnvs(calendar_agent,
                                     LocalOthers(current_schedule, req)) :
               Execute(req, c[1], [env EXCEPT !.answer = c[2]])

ExecuteModify ==
    /\ Idle
    /\ \E req \in ModifyRequests(current_schedule), auto_confirm \in BOOLEAN,
          env \in ModifyEnvs(calendar_agent) :
           Execute(req, auto_confirm, env)

\* the caller takes the result; the session accepts the next request
Return ==
    /\ pc = "returned"
    /\ pc' = "idle"
    /\ last' = NoLast
    /\ UNCHANGED <<current_schedule, aliased, calendar_agent, conflict_agent,
                   collaboration_agent, pending_changes, ops>>

Next ==
    \/ SetSchedule
    \/ ExecuteAdd
    \/ ExecuteCancel
    \/ ExecuteReschedule
    \/ ExecuteModify
    \/ Return

Spec == Init /\ [][Next]_vars

\* ------------------------------------------------ the Conflict Detector
\* the events a checked schedule is made of: well-formed (start < end),
\* with the titles, locations, dates and intervals that tell the rules apart
DetectEvents ==
    {ScheduleItem(c, l, d, w[1], w[2], NoId) :
        c \in {"math", "art"}, l \in {"", "r1", "R1", "r2"}, d \in {1, 2},
        w \in {<<<<9, 0>>, <<10, 0>>>>, <<<<9, 0>>, <<11, 0>>>>,
               <<<<10, 0>>, <<11, 0>>>>}}

DetectSchedules == UNION {[1..n -> DetectEvents] : n \in 0..MaxLen}

\* the candidates of check_new_event_conflicts
Candidates == {e \in DetectEvents : e.course = "math" /\ e.location = "r1"}

\* a schedule was parsed and handed to the detector (main, lines 279-281)
InitDetect ==
    /\ current_schedule \in DetectSchedules
    /\ aliased = TRUE
    /\ calendar_agent = FALSE
    /\ conflict_agent = TRUE
    /\ collaboration_agent = Agents(TRUE, TRUE)
    /\ pending_changes = <<>>
    /\ ops = 0
    /\ pc = "idle"
    /\ last = NoLast

\* conflict_agent.check_conflicts(events) (main, line 290)
CheckConflicts ==
    /\ pc = "idle"
    /\ pc' = "returned"
    /\ last' = Last("check_conflicts", NoRequest, FALSE, NoEnv,
                    current_schedule,
                    Result(FALSE, FALSE, "",
                           check_conflicts(current_schedule, StoredEvents)),
                    <<>>)
    /\ UNCHANGED <<current_schedule, aliased, calendar_agent, conflict_agent,
                   collaboration_agent, pending_changes, ops>>

\* conflict_agent.check_new_event_conflicts(new_event, schedule)
CheckNewEventConflicts ==
    /\ pc = "idle"
    /\ \E new_event \in Candidates :
          last' = Last("check_new_event_conflicts",
                       [NoRequest EXCEPT !.new_event = new_event], FALSE,
                       NoEnv, current_schedule,
                       Result(FALSE, FALSE, "",
                              check_new_event_conflicts(
                                  new_event, current_schedule, StoredEvents)),
                       <<>>)
    /\ pc' = "returned"
    /\ UNCHANGED <<current_schedule, aliased, calendar_agent, conflict_agent,
                   collaboration_agent, pending_changes, ops>>

NextDetect ==
    \/ CheckConflicts
    \/ CheckNewEventConflicts
    \/ Return

SpecDetect == InitDetect /\ [][NextDetect]_vars

\* ------------------------------------------------ the Free-Slot Finder
\* the events of a schedule whose free slots are asked for: before, inside,
\* across the ends of and behind the day window, disjoint, adjacent and
\* overlapping
SlotEvents ==
    {ScheduleItem("math", "r1", d, w[1], w[2], NoId) :
        d \in {1, 2},
        w \in {<<<<6, 0>>, <<7, 0>>>>, <<<<7, 0>>, <<9, 0>>>>,
               <<<<9, 0>>, <<11, 0>>>>, <<<<12, 0>>, <<14, 0>>>>,
               <<<<14, 0>>, <<16, 0>>>>, <<<<10, 0>>, <<15, 0>>>>,
               <<<<19, 0>>, <<21, 0>>>>, <<<<21, 0>>, <<22, 0>>>>}}

SlotSchedules == UNION {[1..n -> SlotEvents] : n \in 0..MaxLen}

\* the durations asked for: an hour, a minute more, the window, a minute more
Durations == {60, 61, 720, 721}

InitSlots ==
    /\ current_schedule \in SlotSchedules
    /\ aliased = TRUE
    /\ calendar_agent = FALSE
    /\ conflict_agent = TRUE
    /\ collaboration_agent = Agents(TRUE, TRUE)
    /\ pending_changes = <<>>
    /\ ops = 0
    /\ pc = "idle"
    /\ last = NoLast

\* conflict_agent.find_free_slots(schedule, date, duration_minutes)
FindFreeSlots ==
    /\ pc = "idle"
    /\ \E date \in {1, 2}, duration_minutes \in Durations :
          last' = [op |-> "find_free_slots", date |-> date,
                   duration_minutes |-> duration_minutes,
                   pre |-> current_schedule,
                   result |-> find_free_slots(current_schedule, date,
                                              duration_minutes)]
    /\ pc' = "returned"
    /\ UNCHANGED <<current_schedule, aliased, calendar_agent, conflict_agent,
                   collaboration_agent, pending_changes, ops>>

NextSlots ==
    \/ FindFreeSlots
    \/ Return

SpecSlots == InitSlots /\ [][NextSlots]_vars

\* ------------------------------------------------ the Batch Coordinator
\* the fixed events of the second day: none; all but ninety minutes; an hour
\* in the morning; all but the last hour of the window
FixedDays ==
    {<<>>,
     <<ScheduleItem("gym", "r1", 2, <<8, 0>>, <<12, 0>>, NoId),
       ScheduleItem("gym", "r1", 2, <<13, 30>>, <<20, 0>>, NoId)>>,
     <<ScheduleItem("gym", "r1", 2, <<9, 0>>, <<10, 0>>, NoId)>>,
     <<ScheduleItem("gym", "r1", 2, <<8, 0>>, <<19, 0>>, NoId)>>}

\* the events a batch moves: of 120, 60 and 90 minutes, one bound to the
\* store, one in another room, one on the second day, one without an end
BatchEvents ==
    {ScheduleItem("math", "r1", 1, <<10, 0>>, <<12, 0>>, NoId),
     ScheduleItem("art", "r1", 1, <<10, 0>>, <<11, 0>>, 1),
     ScheduleItem("lab", "r2", 1, <<14, 0>>, <<15, 30>>, NoId),
     ScheduleItem("sem", "r1", 2, <<10, 30>>, <<11, 30>>, NoId),
     ScheduleItem("quiz", "r1", 1, <<10, 0>>, NoTime, NoId)}

BatchSchedules ==
    {fixed \o moved :
        fixed \in FixedDays,
        moved \in UNION {[1..n -> BatchEvents] : n \in 0..MaxLen}}

\* the positions of the events a batch is asked to move
Movable(schedule) ==
    {i \in 1..Len(schedule) : schedule[i] \in BatchEvents}

\* the lists of at most n different events of the schedule
EventLists(schedule, n) ==
    {events \in UNION {[1..k -> Movable(schedule)] : k \in 0..n} :
        \A i, j \in 1..Len(events) : i # j => events[i] # events[j]}

\* the answers of the user and of the store to the executions of a batch,
\* one for each turn
BatchEnvs(n, store) ==
    [1..n -> {[NoEnv EXCEPT !.answer = a, !.update_ok = uo] :
                 a \in {"y", "n"},
                 uo \in IF store THEN BOOLEAN ELSE {TRUE}}]

\* a CollaborationAgent constructed with or without its agents, beside a
\* change agent that holds the schedule
InitBatch ==
    /\ current_schedule \in BatchSchedules
    /\ aliased = TRUE
    /\ calendar_agent \in BOOLEAN
    /\ conflict_agent = TRUE
    /\ collaboration_agent \in {Agents(c, d) : c \in BOOLEAN, d \in BOOLEAN}
    /\ pending_changes = <<>>
    /\ ops = 0
    /\ pc = "idle"
    /\ last = NoLast

\* the record of one call of batch_reschedule: its arguments, the schedule
\* before and after, the results it returned and its turns
BatchLast(events, target_date, pre, b) ==
    [op |-> "batch_reschedule", events |-> events,
     target_date |-> target_date, pre |-> pre, post |-> b.schedule,
     raised |-> b.raised,
     result |-> [success |-> b.success, rescheduled |-> b.rescheduled,
                 failed |-> b.failed, details |-> b.details],
     turns |-> b.turns]

\* collaboration_agent.batch_reschedule(events, target_date, schedule)
BatchReschedule ==
    /\ Idle
    /\ \E events \in EventLists(current_schedule, MaxOps - ops),
          target_date \in {1, 2} :
          \E envs \in BatchEnvs(Len(events), calendar_agent) :
             last' = BatchLast(events, target_date, current_schedule,
                               batch_reschedule(events, target_date,
                                                current_schedule, envs,
                                                collaboration_agent,
                                                calendar_agent,
                                                conflict_agent))
    /\ current_schedule' = last'.post
    /\ ops' = ops + Len(last'.events)
    /\ pc' = "returned"
    /\ UNCHANGED <<aliased, calendar_agent, conflict_agent,
                   collaboration_agent, pending_changes>>

NextBatch ==
    \/ BatchReschedule
    \/ Return

SpecBatch == InitBatch /\ [][NextBatch]_vars

\* ------------------------------------------------ the queue of changes
\* mutant of Drained: the queue is left as it was
Kept(pending) == pending

\* `self.pending_changes = []` (line 105)
Drained(pending) == <<>>

\* the conflict agent's stored list: the schedule itself when both agents
\* were given the same list
Shared(shared, schedule) == IF shared THEN schedule ELSE <<>>

\* add_change: the request joins the end of the queue
add_change(pending, change_request) == Append(pending, change_request)

\* what one turn of coordinate_changes' loop did: the request, whether it
\* was executed, the answers it consumed, its result and its steps
CoordinateTurn(change, executed, env, x) ==
    [change |-> change, executed |-> executed,
     env |-> Consumed(env, x.trace), result |-> x.result, trace |-> x.trace]

\* the summary as coordinate_changes initialises it (lines 78-84)
CoordinateStart(schedule) ==
    [schedule |-> schedule, success |-> TRUE, executed |-> 0, failed |-> 0,
     conflicts |-> <<>>, turns |-> <<>>, raised |-> FALSE]

\* one turn of the loop (lines 87-102); x is what execute_change does
CoordinateStep(c, change, change_agent, env, x) ==
    IF ~change_agent
    THEN [c EXCEPT !.turns = Append(@, CoordinateTurn(change, FALSE, env,
                                                      NotExecuted))]
    ELSE IF Raised(x)
    THEN [c EXCEPT !.schedule = x.schedule,
                   !.raised = TRUE,
                   !.turns = Append(@, CoordinateTurn(change, TRUE, env, x))]
    ELSE IF x.result.success
    THEN [c EXCEPT !.schedule = x.schedule,
                   !.executed = @ + 1,
                   !.conflicts = @ \o x.result.conflicts,
                   !.turns = Append(@, CoordinateTurn(change, TRUE, env, x))]
    ELSE [c EXCEPT !.schedule = x.schedule,
                   !.failed = @ + 1,
                   !.success = FALSE,
                   !.conflicts = @ \o x.result.conflicts,
                   !.turns = Append(@, CoordinateTurn(change, TRUE, env, x))]

\* the loop over the queue (lines 87-102); an exception of execute_change
\* ends it
RECURSIVE CoordinateSteps(_, _, _, _, _, _, _)
CoordinateSteps(c, pending, envs, agents, store, detector, shared) ==
    IF pending = <<>> \/ c.raised THEN c
    ELSE CoordinateSteps(
             CoordinateStep(c, Head(pending), agents.change_agent, Head(envs),
                            execute_change(c.schedule, Shared(shared, c.schedule),
                                           Head(pending), FALSE, Head(envs),
                                           store, detector)),
             Tail(pending), Tail(envs), agents, store, detector, shared)

\* the summary returned: for an empty queue the early return of line 74
Summary(pending, c) ==
    IF pending = <<>>
    THEN [success |-> TRUE, message |-> "No pending changes", executed |-> 0]
    ELSE [success |-> c.success, executed |-> c.executed,
          failed |-> c.failed, conflicts |-> c.conflicts]

\* the queue coordinate_changes leaves: cleared behind the loop, untouched
\* when the queue was empty or the loop was left by an exception
QueueAfter(pending, c) ==
    IF c.raised THEN pending ELSE Drained(pending)

\* CollaborationAgent.coordinate_changes: the schedule and the queue it
\* leaves, its summary and its turns
coordinate_changes(pending, schedule, envs, agents, store, detector, shared) ==
    CoordinateSteps(CoordinateStart(schedule), pending, envs, agents, store,
                    detector, shared)

\* the requests queued: Adds that meet an event, Cancels of the last event
\* or of none, Reschedules to another day, to another start and to a start
\* that does not parse, Modifies of the room
ChangeRequests(schedule) ==
    {Request("add", NoTarget, ev, FALSE, NoDate, NoTime, NoTime, "", "") :
        ev \in {ScheduleItem("art", "r1", 1, <<0, 0>>, <<8, 0>>, NoId),
                ScheduleItem("art", "r1", 1, <<8, 0>>, <<16, 0>>, NoId)}}
    \cup {Request("cancel", t, NoEvent, FALSE, NoDate, NoTime, NoTime, "", "") :
             t \in {NoTarget, Len(schedule)}}
    \cup {Request("reschedule", t, NoEvent, FALSE, w[1], w[2], NoTime, "", "") :
             t \in 1..Len(schedule),
             w \in {<<2, NoTime>>, <<NoDate, <<16, 0>>>>, <<NoDate, BadTime>>}}
    \cup {Request("modify", t, NoEvent, FALSE, NoDate, NoTime, NoTime, "r2", "") :
             t \in 1..Len(schedule)}

\* a request's event is an object: the caller queues no change of an event
\* behind its cancellation
Queueable(pending, change_request) ==
    \A i \in 1..Len(pending) :
        (pending[i].change_type = "cancel"
         /\ pending[i].original_event # NoTarget)
        => change_request.original_event # pending[i].original_event

\* the answers of the user and of the store, one for each queued request
CoordinateEnvs(n, store) ==
    [1..n -> {Env(a, FALSE, "1", ok, ok, ok, <<>>) :
                 a \in {"y", "n"},
                 ok \in IF store THEN BOOLEAN ELSE {TRUE}}]

\* a CollaborationAgent with an empty queue, with or without its change
\* agent; the change agent holds no schedule or a parsed one
InitCoordinate ==
    /\ \/ current_schedule = <<>> /\ aliased = FALSE
       \/ current_schedule \in ParsedSchedules /\ aliased = TRUE
    /\ calendar_agent \in BOOLEAN
    /\ conflict_agent = TRUE
    /\ collaboration_agent \in {Agents(c, TRUE) : c \in BOOLEAN}
    /\ pending_changes = <<>>
    /\ ops = 0
    /\ pc = "idle"
    /\ last = NoLast

\* collaboration_agent.add_change(change_request)
AddChange ==
    /\ Idle
    /\ ops + Len(pending_changes) < MaxOps
    /\ \E change_request \in ChangeRequests(current_schedule) :
          /\ Queueable(pending_changes, change_request)
          /\ pending_changes' = add_change(pending_changes, change_request)
    /\ UNCHANGED <<current_schedule, aliased, calendar_agent, conflict_agent,
                   collaboration_agent, ops, pc, last>>

\* the record of one call of coordinate_changes: the queue and the schedule
\* before and after, the summary it returned and its turns
CoordinateLast(pending, pre, c) ==
    [op |-> "coordinate_changes", queue |-> pending, pre |-> pre,
     post |-> c.schedule, left |-> QueueAfter(pending, c),
     raised |-> c.raised, result |-> Summary(pending, c), turns |-> c.turns]

\* collaboration_agent.coordinate_changes(schedule)
Coordinate ==
    /\ Idle
    /\ \E envs \in CoordinateEnvs(Len(pending_changes), calendar_agent) :
          last' = CoordinateLast(pending_changes, current_schedule,
                                 coordinate_changes(pending_changes,
                                                    current_schedule, envs,
                                                    collaboration_agent,
                                                    calendar_agent,
                                                    conflict_agent, aliased))
    /\ current_schedule' = last'.post
    /\ pending_changes' = last'.left
    /\ ops' = ops + Len(last'.turns)
    /\ pc' = "returned"
    /\ UNCHANGED <<aliased, calendar_agent, conflict_agent,
                   collaboration_agent>>

NextCoordinate ==
    \/ AddChange
    \/ Coordinate
    \/ Return

SpecCoordinate == InitCoordinate /\ [][NextCoordinate]_vars

\* ------------------------------------------------ the negotiation of a time
\* the number of preferred dates of one negotiation
MaxDates == 4

\* the events of one day: none; the first hour; the morning from nine; up to
\* one o'clock and half an hour more from half past one; up to six o'clock;
\* the whole window
DayLayouts(d) ==
    {<<>>,
     <<ScheduleItem("gym", "r1", d, <<8, 0>>, <<9, 0>>, NoId)>>,
     <<ScheduleItem("gym", "r1", d, <<9, 0>>, <<12, 0>>, NoId)>>,
     <<ScheduleItem("gym", "r1", d, <<8, 0>>, <<13, 0>>, NoId),
       ScheduleItem("gym", "r1", d, <<13, 30>>, <<14, 0>>, NoId)>>,
     <<ScheduleItem("gym", "r1", d, <<8, 0>>, <<18, 0>>, NoId)>>,
     <<ScheduleItem("gym", "r1", d, <<8, 0>>, <<20, 0>>, NoId)>>}

\* the third day is free or taken up to two o'clock
NegotiateSchedules ==
    {a \o b \o c :
        a \in DayLayouts(1), b \in DayLayouts(2),
        c \in {<<>>, <<ScheduleItem("gym", "r1", 3, <<8, 0>>, <<14, 0>>, NoId)>>}}

\* the lists of preferred dates, a date possibly more than once
PreferredTimes == UNION {[1..n -> 1..3] : n \in 0..MaxDates}

\* the durations negotiated: half an hour and the default of an hour
NegotiatedDurations == {30, 60}

\* the start times scored: every hour, at its first and at its last minute
ScoredTimes == {<<h, m>> : h \in 0..23, m \in {0, 59}}

\* a CollaborationAgent with or without its conflict agent and a schedule
InitNegotiate ==
    /\ current_schedule \in NegotiateSchedules
    /\ aliased = TRUE
    /\ calendar_agent = FALSE
    /\ conflict_agent = TRUE
    /\ collaboration_agent \in {Agents(TRUE, d) : d \in BOOLEAN}
    /\ pending_changes = <<>>
    /\ ops = 0
    /\ pc = "idle"
    /\ last = NoLast

\* collaboration_agent._score_slot(start_time)
ScoreSlot ==
    /\ pc = "idle"
    /\ \E start_time \in ScoredTimes :
          last' = [op |-> "score_slot", start_time |-> start_time,
                   result |-> score_slot(start_time)]
    /\ pc' = "returned"
    /\ UNCHANGED <<current_schedule, aliased, calendar_agent, conflict_agent,
                   collaboration_agent, pending_changes, ops>>

\* collaboration_agent.negotiate_time(schedule, preferred_times, duration)
NegotiateTime ==
    /\ pc = "idle"
    /\ \E preferred_times \in PreferredTimes,
          duration \in NegotiatedDurations :
          last' = [op |-> "negotiate_time",
                   preferred_times |-> preferred_times,
                   duration |-> duration, pre |-> current_schedule,
                   options |-> Options(current_schedule, preferred_times,
                                       duration,
                                       collaboration_agent.conflict_agent),
                   result |-> negotiate_time(
                                  current_schedule, preferred_times, duration,
                                  collaboration_agent.conflict_agent)]
    /\ pc' = "returned"
    /\ UNCHANGED <<current_schedule, aliased, calendar_agent, conflict_agent,
                   collaboration_agent, pending_changes, ops>>

NextNegotiate ==
    \/ ScoreSlot
    \/ NegotiateTime
    \/ Return

SpecNegotiate == InitNegotiate /\ [][NextNegotiate]_vars

\* ------------------------------------------------ the request's validation
\* the fields validate requires of an Add (line 42)
RequiredFields == {"course", "date", "start_time", "end_time"}

\* new_details["new_event"]: the key is absent, or its value is a dictionary
\* with some keys, a ScheduleItem object with some attributes set, or None
NewEventOf(shape, fields) == [shape |-> shape, fields |-> fields]

\* new_details.get("new_event", {}): an absent key gives the empty dictionary
GetNewEvent(new_event) ==
    IF new_event.shape = "absent" THEN NewEventOf("dict", {}) ELSE new_event

\* the outcome of validate: the boolean returned, or an exception
Validated(value) == [raised |-> FALSE, value |-> value]
TypeError == [raised |-> TRUE, value |-> FALSE]

\* ChangeRequest.validate (lines 38-50); flat are the keys of new_details.
\* `field in new_event` is the key test of a dictionary; a ScheduleItem has
\* no __contains__ and is not iterable, as little as None, so the test raises
validate(change_type, original_event, new_event, flat) ==
    IF change_type = "add"
    THEN IF GetNewEvent(new_event).shape # "dict"
         THEN TypeError
         ELSE Validated(\A field \in RequiredFields :
                           \/ field \in GetNewEvent(new_event).fields
                           \/ field \in flat)
    ELSE IF change_type \in {"reschedule", "modify", "cancel"}
    THEN Validated(original_event # NoEvent)
    ELSE Validated(FALSE)

\* the requests validated: every type, with and without a target, with the
\* new event in each shape and any of the required keys in new_details
NewEventShapes ==
    {NewEventOf("absent", {}), NewEventOf("none", {})}
    \cup {NewEventOf(shape, fields) :
             shape \in {"dict", "object"}, fields \in SUBSET RequiredFields}

ValidateRequests ==
    [change_type : {"add", "cancel", "reschedule", "modify"},
     original_event : {NoEvent,
                       ScheduleItem("math", "r1", 1, <<8, 0>>, <<16, 0>>, NoId)},
     new_event : NewEventShapes,
     flat : SUBSET RequiredFields]

\* a change request was built and waits to be validated
InitValidate ==
    /\ current_schedule = <<>>
    /\ aliased = FALSE
    /\ calendar_agent = FALSE
    /\ conflict_agent = TRUE
    /\ collaboration_agent = Agents(TRUE, TRUE)
    /\ pending_changes \in {<<r>> : r \in ValidateRequests}
    /\ ops = 0
    /\ pc = "idle"
    /\ last = NoLast

\* change_request.validate()
Validate ==
    /\ pc = "idle"
    /\ last' = [op |-> "validate", req |-> pending_changes[1],
                result |-> validate(pending_changes[1].change_type,
                                    pending_changes[1].original_event,
                                    pending_changes[1].new_event,
                                    pending_changes[1].flat)]
    /\ pc' = "returned"
    /\ UNCHANGED <<current_schedule, aliased, calendar_agent, conflict_agent,
                   collaboration_agent, pending_changes, ops>>

NextValidate ==
    \/ Validate
    \/ Return

SpecValidate == InitValidate /\ [][NextValidate]_vars

\* ------------------------------------------------------------- properties
\* the state right after execute_change returned
Returned == pc = "returned" /\ last.op = "execute"

Took(op, detail) ==
    \E i \in 1..Len(last.trace) : last.trace[i] = <<op, detail>>

Did(op) == \E i \in 1..Len(last.trace) : last.trace[i][1] = op

StoreWrite == Did("store.insert") \/ Did("store.update") \/ Did("store.delete")

StoreCall == StoreWrite \/ Did("store.check_duplicate") \/ Did("store.get_events")

Target == last.req.original_event

\* end minus start of an event, in minutes, on the event's day
Duration(e) ==
    (e.end_time[1] * 60 + e.end_time[2])
    - (e.start_time[1] * 60 + e.start_time[2])

\* the sequence without its i-th element
Without(seq, i) == SubSeq(seq, 1, i - 1) \o SubSeq(seq, i + 1, Len(seq))

\* title, location, date, start and end of two events agree
SameFields(a, b) ==
    /\ a.course = b.course
    /\ a.location = b.location
    /\ a.date = b.date
    /\ a.start_time = b.start_time
    /\ a.end_time = b.end_time

\* an event of the schedule before the call has the new event's title
\* (whatever the case of its letters), date and start
AddsDuplicate ==
    /\ Returned
    /\ last.req.change_type = "add"
    /\ last.req.new_event # NoEvent
    /\ \E i \in 1..Len(last.pre) :
          /\ Lower(last.pre[i].course) = Lower(last.req.new_event.course)
          /\ last.pre[i].date = last.req.new_event.date
          /\ last.pre[i].start_time = last.req.new_event.start_time

\* C1: an Add whose event has the title (case-insensitively), the date and
\* the start of an event already in the schedule returns skipped = true and
\* success = false, calls the Calendar Store not at all and leaves the
\* schedule as it was, for either value of auto_confirm.
C1_DuplicateAddSkipped ==
    AddsDuplicate =>
        /\ last.result.skipped
        /\ ~last.result.success
        /\ ~StoreCall
        /\ current_schedule = last.pre

\* C1 witness: a duplicate that differs from the existing title in the case
\* of its letters, with a store bound and auto_confirm set
C1_Witness ==
    /\ AddsDuplicate
    /\ calendar_agent
    /\ last.auto_confirm
    /\ \A i \in 1..Len(last.pre) :
          last.pre[i].course # last.req.new_event.course

\* an applied Reschedule with a new start and no new end
StartOnlyReschedule ==
    /\ Returned
    /\ last.req.change_type = "reschedule"
    /\ Target # NoTarget
    /\ last.result.success
    /\ HasTime(last.req.start_time)
    /\ ~HasTime(last.req.end_time)

\* C2: after an applied Reschedule with a new start and no new end the
\* target's duration (end minus start on its day) is its duration before.
C2_DurationPreserved ==
    StartOnlyReschedule =>
        Duration(current_schedule[Target]) = Duration(last.pre[Target])

\* the store refused the update of a Reschedule or a Modify
UpdateFailed ==
    /\ Returned
    /\ last.req.change_type \in {"reschedule", "modify"}
    /\ Target # NoTarget
    /\ Took("store.update", "fail")

\* C3: when the store's update fails during a Reschedule or a Modify of a
\* bound event, the result is success = false and the target keeps its
\* title, location, date, start and end.
C3_UpdateFailureLeavesTarget ==
    UpdateFailed =>
        /\ ~last.result.success
        /\ SameFields(current_schedule[Target], last.pre[Target])

\* C4: after a Cancel that returned success = true the schedule is the
\* schedule before the call without the target, the other events in order.
C4_CancelRemovesTarget ==
    (Returned /\ last.req.change_type = "cancel" /\ last.result.success) =>
        /\ Target # NoTarget
        /\ current_schedule = Without(last.pre, Target)

\* conflicts were detected, auto_confirm is false, and the confirmation
\* was answered with `answer`
Confirmed(answer) ==
    /\ Returned
    /\ last.req.change_type \in {"add", "reschedule"}
    /\ last.result.conflicts # <<>>
    /\ ~last.auto_confirm
    /\ Took("confirm", answer)

\* C5: with conflicts detected, auto_confirm false and no answer available
\* (end of input), the change is not applied and the schedule is unchanged.
C5_NoAnswerDeclines ==
    Confirmed("EOF") =>
        /\ ~last.result.success
        /\ current_schedule = last.pre

\* C6: a declined conflict confirmation returns success = false,
\* skipped = false and the non-empty list of detected conflicts.
C6_DeclineNotSkipped ==
    Confirmed("n") =>
        /\ ~last.result.success
        /\ ~last.result.skipped
        /\ last.result.conflicts # <<>>

\* C7: a declined conflict confirmation leaves the schedule as it was before
\* the call and makes no create, update or delete call on the store.
C7_DeclineLeavesSchedule ==
    (Returned /\ Took("confirm", "n")) =>
        /\ current_schedule = last.pre
        /\ ~StoreWrite

\* C7 witness: a decline with a store bound, on a schedule that has events,
\* of a Reschedule and of an Add
C7_Witness ==
    /\ Returned
    /\ Took("confirm", "n")
    /\ calendar_agent
    /\ last.pre # <<>>
    /\ last.req.change_type = "reschedule"
    /\ last.pre[Target].event_id # NoId

\* the duplicate resolution of an Add ended in keep-existing or in cancel
ResolvedWithoutCreate ==
    /\ Returned
    /\ last.req.change_type = "add"
    /\ \/ Took("resolve", "1")
       \/ Took("resolve", "EOF")
       \/ Took("resolve", "4")

\* C8: an Add whose duplicate resolution ends in keep-existing (chosen or
\* by default) or in cancel returns success = false and inserts nothing.
C8_KeepExistingNotApplied ==
    ResolvedWithoutCreate =>
        /\ ~last.result.success
        /\ current_schedule = last.pre

\* the store refused the insert of an Add
CreateFailed ==
    /\ Returned
    /\ last.req.change_type = "add"
    /\ Took("store.insert", "fail")

\* C9: when the store's create fails during an Add, the result is
\* success = false and the schedule is as it was before the call.
C9_CreateFailureNotApplied ==
    CreateFailed =>
        /\ ~last.result.success
        /\ current_schedule = last.pre

\* C9 witness: the create fails after the existing store event was replaced,
\* conflicts having been confirmed
C9_Witness ==
    /\ CreateFailed
    /\ Took("resolve", "2")
    /\ Took("confirm", "y")
    /\ last.pre # <<>>

\* a Cancel of an event bound to the store, with the store present
BoundCancel ==
    /\ Returned
    /\ last.req.change_type = "cancel"
    /\ Target # NoTarget
    /\ last.pre[Target].event_id # NoId
    /\ calendar_agent

\* C10: a Cancel of a bound event asks the store to delete before any local
\* removal; when the delete fails the result is success = false and the
\* event is still in the schedule.
C10_RemoteDeleteFirst ==
    BoundCancel =>
        /\ Did("store.delete")
        /\ \A i \in 1..Len(last.trace) :
              last.trace[i][1] = "local.remove" =>
                  \E j \in 1..(i - 1) : last.trace[j][1] = "store.delete"
        /\ Took("store.delete", "fail") =>
              /\ ~last.result.success
              /\ current_schedule = last.pre

\* C10 witness: the store refused the delete of a bound event
C10_Witness ==
    /\ BoundCancel
    /\ Took("store.delete", "fail")
    /\ Len(last.pre) = 2

\* a full new Event: what ChangeRequest.validate requires of an Add
FullEvent(e) ==
    /\ Truthy(e.course)
    /\ e.date # NoDate
    /\ HasTime(e.start_time)
    /\ HasTime(e.end_time)

\* the executed request does not satisfy validation
Invalid ==
    /\ Returned
    /\ \/ /\ last.req.change_type \in {"cancel", "reschedule", "modify"}
          /\ Target = NoTarget
       \/ /\ last.req.change_type = "add"
          /\ ~FullEvent(last.req.new_event)

\* C11: a request that does not satisfy validation (no resolved target for
\* Cancel, Reschedule or Modify; no full new event for Add) returns
\* success = false with a non-empty message, calls the store not at all,
\* asks for no confirmation and leaves the schedule unchanged.
C11_InvalidRequestRejected ==
    Invalid =>
        /\ ~last.result.success
        /\ last.result.message # ""
        /\ ~StoreCall
        /\ ~Did("confirm")
        /\ current_schedule = last.pre

\* C12: execute_change always returns a result, no exception leaves it, and
\* every result that is not a success carries a message.
C12_AlwaysReturns ==
    Returned =>
        /\ ~Did("raise")
        /\ ~last.result.success => last.result.message # ""

\* C13: the conflicts reported for a Reschedule never pair the hypothetical
\* updated event with the target itself.
C13_TargetNotItsOwnConflict ==
    (Returned /\ last.req.change_type = "reschedule" /\ Target # NoTarget) =>
        \A i \in 1..Len(last.result.conflicts) :
            last.result.conflicts[i].event_b # last.pre[Target]

\* ------------------------------------------- properties of the detector
\* the state right after check_conflicts returned
Detected == pc = "returned" /\ last.op = "check_conflicts"

\* the state right after check_new_event_conflicts returned
DetectedAgainst == pc = "returned" /\ last.op = "check_new_event_conflicts"

\* the conflict c is about the events a and b, in either order
PairOf(c, a, b) ==
    \/ c.event_a = a /\ c.event_b = b
    \/ c.event_a = b /\ c.event_b = a

\* the conflicts returned for the events a and b
Reported(a, b) ==
    {i \in 1..Len(last.result.conflicts) :
        PairOf(last.result.conflicts[i], a, b)}

\* the pairs of positions of the checked schedule that hold a and b
Occurrences(a, b) ==
    {pq \in (1..Len(last.pre)) \X (1..Len(last.pre)) :
        /\ pq[1] < pq[2]
        /\ \/ last.pre[pq[1]] = a /\ last.pre[pq[2]] = b
           \/ last.pre[pq[1]] = b /\ last.pre[pq[2]] = a}

\* exactly one conflict for each pair that holds a and b, each of the kind
\* and severity given
ExactlyOne(a, b, kind, severity) ==
    /\ Cardinality(Reported(a, b)) = Cardinality(Occurrences(a, b))
    /\ \A i \in Reported(a, b) :
          /\ last.result.conflicts[i].conflict_type = kind
          /\ last.result.conflicts[i].severity = severity

Minutes(t) == t[1] * 60 + t[2]

SameInterval(a, b) ==
    a.date = b.date /\ a.start_time = b.start_time /\ a.end_time = b.end_time

Overlapping(a, b) ==
    /\ a.date = b.date
    /\ Minutes(a.start_time) < Minutes(b.end_time)
    /\ Minutes(b.start_time) < Minutes(a.end_time)
    /\ ~SameInterval(a, b)

Adjacent(a, b) ==
    /\ a.date = b.date
    /\ \/ a.end_time = b.start_time
       \/ b.end_time = a.start_time

\* both locations are non-empty and differ whatever the case of the letters
LocationsDiffer(a, b) ==
    /\ a.location # ""
    /\ b.location # ""
    /\ Lower(a.location) # Lower(b.location)

\* C14: for every two events of the checked schedule on one date with the
\* same start and the same end, check_conflicts returns exactly one conflict
\* for the pair, a double_booking of severity high, whatever their titles
\* and locations.
C14_DoubleBooking ==
    Detected =>
        \A p, q \in 1..Len(last.pre) :
            (p < q /\ SameInterval(last.pre[p], last.pre[q])) =>
                ExactlyOne(last.pre[p], last.pre[q], "double_booking", "high")

\* C14 witness: two events with the same interval and different titles and
\* locations were checked
C14_Witness ==
    /\ Detected
    /\ \E p, q \in 1..Len(last.pre) :
          /\ p < q
          /\ SameInterval(last.pre[p], last.pre[q])
          /\ last.pre[p].course # last.pre[q].course
          /\ last.pre[p].location # last.pre[q].location
          /\ Reported(last.pre[p], last.pre[q]) # {}

\* C15: for every two events on one date whose intervals overlap and are not
\* identical, check_conflicts returns exactly one conflict for the pair, a
\* time_overlap of severity high.
C15_TimeOverlap ==
    Detected =>
        \A p, q \in 1..Len(last.pre) :
            (p < q /\ Overlapping(last.pre[p], last.pre[q])) =>
                ExactlyOne(last.pre[p], last.pre[q], "time_overlap", "high")

\* C15 witness: the later event is listed first and the two overlap
C15_Witness ==
    /\ Detected
    /\ \E p, q \in 1..Len(last.pre) :
          /\ p < q
          /\ Overlapping(last.pre[p], last.pre[q])
          /\ Minutes(last.pre[q].start_time) < Minutes(last.pre[p].start_time)
          /\ Reported(last.pre[p], last.pre[q]) # {}

\* C16: for every two events on one date of which one ends exactly when the
\* other starts, check_conflicts returns exactly one conflict for the pair,
\* a back_to_back of severity medium, when both locations are non-empty and
\* differ case-insensitively, and no conflict for the pair otherwise.
C16_BackToBack ==
    Detected =>
        \A p, q \in 1..Len(last.pre) :
            (p < q /\ Adjacent(last.pre[p], last.pre[q])) =>
                IF LocationsDiffer(last.pre[p], last.pre[q])
                THEN ExactlyOne(last.pre[p], last.pre[q],
                                "back_to_back", "medium")
                ELSE Reported(last.pre[p], last.pre[q]) = {}

\* C16 witness: the later of two adjacent events at different locations is
\* listed first, and the pair is reported
C16_Witness ==
    /\ Detected
    /\ \E p, q \in 1..Len(last.pre) :
          /\ p < q
          /\ last.pre[q].end_time = last.pre[p].start_time
          /\ LocationsDiffer(last.pre[p], last.pre[q])
          /\ Reported(last.pre[p], last.pre[q]) # {}

\* C17: no conflict returned by check_conflicts or by
\* check_new_event_conflicts is between events of different dates.
C17_SameDateOnly ==
    (Detected \/ DetectedAgainst) =>
        \A i \in 1..Len(last.result.conflicts) :
            last.result.conflicts[i].event_a.date
                = last.result.conflicts[i].event_b.date

\* C17 witness: a candidate was checked against a schedule that holds an
\* event of another date with the candidate's interval, and an event of the
\* candidate's date that conflicts with it
C17_Witness ==
    /\ DetectedAgainst
    /\ last.result.conflicts # <<>>
    /\ \E p \in 1..Len(last.pre) :
          /\ last.pre[p].date # last.req.new_event.date
          /\ last.pre[p].start_time = last.req.new_event.start_time
          /\ last.pre[p].end_time = last.req.new_event.end_time

\* ----------------------------------- properties of the free-slot finder
\* the state right after find_free_slots returned
Found == pc = "returned" /\ last.op = "find_free_slots"

WindowStart == 8 * 60
WindowEnd == 20 * 60

\* the events of the date asked for, as intervals of minutes of the day
Busy ==
    {<<Minutes(last.pre[i].start_time), Minutes(last.pre[i].end_time)>> :
        i \in {j \in 1..Len(last.pre) : last.pre[j].date = last.date}}

\* the slots returned, as intervals of minutes of the day
SlotAt(i) == <<Minutes(last.result[i][1]), Minutes(last.result[i][2])>>
Slots == {SlotAt(i) : i \in 1..Len(last.result)}

\* the events of the date lie inside the window and no two of them overlap
\* or coincide
Tidy ==
    /\ \A b \in Busy : WindowStart <= b[1] /\ b[1] < b[2] /\ b[2] <= WindowEnd
    /\ \A i, j \in 1..Len(last.pre) :
          (i < j /\ last.pre[i].date = last.date
                 /\ last.pre[j].date = last.date) =>
              \/ Minutes(last.pre[i].end_time) <= Minutes(last.pre[j].start_time)
              \/ Minutes(last.pre[j].end_time) <= Minutes(last.pre[i].start_time)

\* the span from s to e is inside the window and no event reaches into it
Free(s, e) ==
    /\ WindowStart <= s /\ s < e /\ e <= WindowEnd
    /\ \A b \in Busy : b[2] <= s \/ e <= b[1]

\* the maximal unoccupied spans of the window: free, and bounded on either
\* side by the window or by an event
MaximalGaps ==
    LET points == {WindowStart, WindowEnd} \cup {b[1] : b \in Busy}
                      \cup {b[2] : b \in Busy}
    IN  {g \in points \X points :
            /\ Free(g[1], g[2])
            /\ g[1] = WindowStart \/ \E b \in Busy : b[2] = g[1]
            /\ g[2] = WindowEnd \/ \E b \in Busy : b[1] = g[2]}

\* C18: when the events of the date lie inside the window and do not
\* overlap, find_free_slots returns, in chronological order and each once,
\* exactly the maximal unoccupied gaps of the window that are at least
\* duration_minutes long; events of other dates have no effect.
C18_MaximalGaps ==
    (Found /\ Tidy) =>
        /\ Slots = {g \in MaximalGaps : g[2] - g[1] >= last.duration_minutes}
        /\ \A i \in 1..(Len(last.result) - 1) : SlotAt(i)[2] <= SlotAt(i + 1)[1]

\* C18 witness: two events of the date inside the window, the later one
\* listed first, and at least two slots returned
C18_Witness ==
    /\ Found
    /\ Tidy
    /\ Len(last.result) >= 2
    /\ \E i, j \in 1..Len(last.pre) :
          /\ i < j
          /\ last.pre[i].date = last.date
          /\ last.pre[j].date = last.date
          /\ Minutes(last.pre[j].end_time) < Minutes(last.pre[i].start_time)

\* two events of the date, the first ending before the second starts, with
\* no event of the date reaching into the span between them
Consecutive(a, b) ==
    /\ a.date = last.date /\ b.date = last.date
    /\ Free(Minutes(a.end_time), Minutes(b.start_time))

\* C19: every slot returned is at least duration_minutes long; the span
\* between two consecutive events is returned when it is exactly
\* duration_minutes long and is not returned when it is a minute shorter.
C19_MinimumDuration ==
    Found =>
        /\ \A g \in Slots : g[2] - g[1] >= last.duration_minutes
        /\ \A i, j \in 1..Len(last.pre) :
              Consecutive(last.pre[i], last.pre[j]) =>
                  LET gap == <<Minutes(last.pre[i].end_time),
                               Minutes(last.pre[j].start_time)>>
                  IN  /\ gap[2] - gap[1] = last.duration_minutes
                         => gap \in Slots
                      /\ gap[2] - gap[1] = last.duration_minutes - 1
                         => gap \notin Slots

\* C19 witness: a span of exactly the duration asked for, between two events,
\* was returned
C19_Witness ==
    /\ Found
    /\ \E i, j \in 1..Len(last.pre) :
          /\ Consecutive(last.pre[i], last.pre[j])
          /\ Minutes(last.pre[j].start_time) - Minutes(last.pre[i].end_time)
                = last.duration_minutes
          /\ <<Minutes(last.pre[i].end_time),
               Minutes(last.pre[j].start_time)>> \in Slots

\* C20: every slot returned lies within the day window,
\* 08:00 <= start < end <= 20:00.
C20_SlotsInsideWindow ==
    Found =>
        \A g \in Slots :
            WindowStart <= g[1] /\ g[1] < g[2] /\ g[2] <= WindowEnd

\* C21: no slot returned by find_free_slots overlaps an event of the date,
\* and the slots are pairwise disjoint and in chronological order, also when
\* events of the date overlap or lie inside one another.
C21_SlotsAreFree ==
    Found =>
        /\ \A g \in Slots : \A b \in Busy : ~(g[1] < b[2] /\ b[1] < g[2])
        /\ \A i, j \in 1..Len(last.result) :
              i < j => SlotAt(i)[2] <= SlotAt(j)[1]

\* C21 witness: an event of the date lies inside another one, listed after
\* it, and a slot behind them is returned
C21_Witness ==
    /\ Found
    /\ last.result # <<>>
    /\ \E i, j \in 1..Len(last.pre) :
          /\ i < j
          /\ last.pre[i].date = last.date
          /\ last.pre[j].date = last.date
          /\ Minutes(last.pre[i].start_time) < Minutes(last.pre[j].start_time)
          /\ Minutes(last.pre[j].end_time) < Minutes(last.pre[i].end_time)
          /\ \E g \in Slots : g[1] = Minutes(last.pre[i].end_time)

\* ------------------------------------ properties of the Batch Coordinator
\* the state right after batch_reschedule returned its results
Batched ==
    pc = "returned" /\ last.op = "batch_reschedule" /\ ~last.raised

\* the turns of the last batch that ended in a successful execution
Successes ==
    {k \in 1..Len(last.turns) :
        last.turns[k].executed /\ last.turns[k].result.success}

\* C22: after batch_reschedule returns, rescheduled + failed is the number
\* of input events, whatever the slot searches and the executions gave.
C22_CountsCoverEvents ==
    Batched =>
        last.result.rescheduled + last.result.failed = Len(last.events)

\* a well-formed event: both times parse and start < end
WellFormed(e) ==
    /\ ParseOk(e.start_time)
    /\ ParseOk(e.end_time)
    /\ Minutes(e.start_time) < Minutes(e.end_time)

\* two well-formed events of one date share some time
Intersect(a, b) ==
    /\ WellFormed(a)
    /\ WellFormed(b)
    /\ a.date = b.date
    /\ Minutes(a.start_time) < Minutes(b.end_time)
    /\ Minutes(b.start_time) < Minutes(a.end_time)

\* C23: after a batch whose events are events of the schedule, a
\* successfully rescheduled event lies on the target date and shares no time
\* with any other event of that date, be it another event of the batch or an
\* event that was there before.
C23_PlacementsDisjoint ==
    Batched =>
        \A k \in Successes :
            /\ last.post[last.turns[k].event].date = last.target_date
            /\ \A j \in 1..Len(last.post) :
                  j # last.turns[k].event =>
                      ~Intersect(last.post[last.turns[k].event], last.post[j])

\* C23 witness: two events were placed on a date that held an event before,
\* the second one behind the first
C23_Witness ==
    /\ Batched
    /\ Cardinality(Successes) = 2
    /\ \E j \in 1..Len(last.pre) :
          /\ last.pre[j].date = last.target_date
          /\ \A k \in Successes : last.turns[k].event # j
    /\ \E k, l \in Successes :
          Minutes(last.post[last.turns[k].event].end_time)
              <= Minutes(last.post[last.turns[l].event].start_time)

\* C24: batch_reschedule takes every input event exactly once, and an event
\* taken before another is at least as long.
C24_LongestFirst ==
    Batched =>
        /\ Len(last.turns) = Len(last.events)
        /\ \A i \in 1..Len(last.events) :
              Cardinality({k \in 1..Len(last.turns) :
                              last.turns[k].event = last.events[i]}) = 1
        /\ \A k, l \in 1..Len(last.turns) :
              (/\ k < l
               /\ WellFormed(last.pre[last.turns[k].event])
               /\ WellFormed(last.pre[last.turns[l].event]))
              => Duration(last.pre[last.turns[k].event])
                     >= Duration(last.pre[last.turns[l].event])

\* C24 witness: the shorter event was given first and taken second
C24_Witness ==
    /\ Batched
    /\ Len(last.events) = 2
    /\ WellFormed(last.pre[last.events[1]])
    /\ WellFormed(last.pre[last.events[2]])
    /\ Duration(last.pre[last.events[1]]) < Duration(last.pre[last.events[2]])
    /\ last.turns[1].event = last.events[2]
    /\ last.turns[2].event = last.events[1]

\* the free slots of the target date of at least the event's duration, in
\* the schedule as it was at the turn
SlotsAtTurn(t) ==
    find_free_slots(t.before, last.target_date,
                    Duration(t.before[t.event]))

\* C25: every event placed by batch_reschedule starts at the start of the
\* chronologically first free slot of the target date that is at least as
\* long as the event, in the schedule as it was at the event's turn, and ends
\* its own duration later.
C25_FirstFreeSlot ==
    Batched =>
        \A k \in Successes :
            LET t == last.turns[k]
                placed == last.post[t.event]
            IN  /\ SlotsAtTurn(t) # <<>>
                /\ placed.start_time = SlotsAtTurn(t)[1][1]
                /\ Minutes(placed.end_time)
                       = Minutes(placed.start_time)
                             + Duration(last.pre[t.event])

\* the two events of 120 and 60 minutes of a batch whose target date has a
\* single free slot, of 90 minutes
TwoForNinety ==
    /\ Batched
    /\ Len(last.events) = 2
    /\ WellFormed(last.pre[last.events[1]])
    /\ WellFormed(last.pre[last.events[2]])
    /\ {Duration(last.pre[last.events[i]]) : i \in 1..2} = {120, 60}
    /\ Len(find_free_slots(last.pre, last.target_date, 1)) = 1
    /\ Minutes(find_free_slots(last.pre, last.target_date, 1)[1][2])
           - Minutes(find_free_slots(last.pre, last.target_date, 1)[1][1])
       = 90

\* C26: an event for which the target date has no free slot of its duration
\* at its turn is counted as failed, no request is executed for it and its
\* date, start and end stay; for an event with such a slot a request is
\* executed.  Of two events of 120 and 60 minutes and a single free slot of
\* 90 minutes only the event of 60 minutes is placed.
C26_NoSlotNoChange ==
    Batched =>
        /\ \A k \in 1..Len(last.turns) :
              LET t == last.turns[k]
              IN  IF WellFormed(t.before[t.event])
                     /\ SlotsAtTurn(t) # <<>>
                  THEN t.executed
                  ELSE WellFormed(t.before[t.event]) =>
                          /\ ~t.executed
                          /\ \E d \in 1..Len(last.result.details) :
                                /\ last.result.details[d].event
                                       = t.before[t.event].course
                                /\ last.result.details[d].slot = NoSlot
                          /\ SameFields(last.post[t.event],
                                        last.pre[t.event])
        /\ last.result.failed
               >= Cardinality({k \in 1..Len(last.turns) :
                                  /\ WellFormed(last.turns[k].before[
                                                    last.turns[k].event])
                                  /\ SlotsAtTurn(last.turns[k]) = <<>>})
        /\ TwoForNinety =>
              \A i \in 1..2 :
                  IF Duration(last.pre[last.events[i]]) = 60
                  THEN /\ last.post[last.events[i]].date = last.target_date
                       /\ last.post[last.events[i]].start_time
                              = find_free_slots(last.pre, last.target_date,
                                                1)[1][1]
                  ELSE SameFields(last.post[last.events[i]],
                                  last.pre[last.events[i]])

\* ------------------------------------ properties of the queue of changes
\* the state right after a call of coordinate_changes ended
CoordinateEnded == pc = "returned" /\ last.op = "coordinate_changes"

\* the state right after coordinate_changes returned its summary
Coordinated == CoordinateEnded /\ ~last.raised

\* a count of the summary, 0 when the summary does not carry it
Counted(key) ==
    IF key \in DOMAIN last.result THEN last.result[key] ELSE 0

\* the conflicts of the results of the turns, one result after the other
RECURSIVE ConflictsOf(_)
ConflictsOf(turns) ==
    IF turns = <<>> THEN <<>>
    ELSE Head(turns).result.conflicts \o ConflictsOf(Tail(turns))

\* C27: coordinate_changes executes every queued request exactly once, in
\* the order of submission; its summary has executed + failed = the number
\* of queued requests, and its conflicts are the conflicts of the single
\* results, one result after the other.
C27_EachOnceInOrder ==
    Coordinated =>
        /\ Len(last.turns) = Len(last.queue)
        /\ \A k \in 1..Len(last.turns) :
              last.turns[k].executed /\ last.turns[k].change = last.queue[k]
        /\ Counted("executed") + Counted("failed") = Len(last.queue)
        /\ (IF "conflicts" \in DOMAIN last.result
            THEN last.result.conflicts ELSE <<>>) = ConflictsOf(last.turns)

\* C28: a call of coordinate_changes that returns leaves the queue empty,
\* whatever became of the requests, and executes no request but those of
\* the queue it found; the queue grows by add_change only, so a request
\* drained once is executed again only if it is queued again.
C28_QueueDrained ==
    [][/\ (pc' = "returned" /\ last'.op = "coordinate_changes"
           /\ ~last'.raised)
          => /\ pending_changes' = <<>>
             /\ Len(last'.turns) <= Len(pending_changes)
             /\ \A k \in 1..Len(last'.turns) :
                   last'.turns[k].change = pending_changes[k]
       /\ (pending_changes' # pending_changes /\ pending_changes' # <<>>)
          => /\ pc = "idle"
             /\ pc' = "idle"
             /\ pending_changes'
                    = Append(pending_changes,
                             pending_changes'[Len(pending_changes')])
      ]_vars

\* C28 witness: the second call returned, having found one request that was
\* not applied, and the queue is empty again
C28_Witness ==
    /\ Coordinated
    /\ ops = 2
    /\ Len(last.queue) = 1
    /\ last.turns[1].executed
    /\ ~last.turns[1].result.success
    /\ pending_changes = <<>>

\* the schedule after execute_change was called for each request in turn,
\* with the answers of the turns
RECURSIVE Sequentially(_, _, _, _, _)
Sequentially(schedule, turns, store, detector, shared) ==
    IF turns = <<>> THEN schedule
    ELSE Sequentially(
             execute_change(schedule, Shared(shared, schedule),
                            Head(turns).change, FALSE, Head(turns).env,
                            store, detector).schedule,
             Tail(turns), store, detector, shared)

\* C29: the schedule after coordinate_changes is the schedule after calling
\* execute_change for each queued request, one after another, with the same
\* answers; every queued request is executed, whatever became of the
\* requests before it.
C29_ItemsAreAtomic ==
    CoordinateEnded =>
        /\ Len(last.turns) = Len(last.queue)
        /\ \A k \in 1..Len(last.turns) : last.turns[k].executed
        /\ last.post = Sequentially(last.pre, last.turns, calendar_agent,
                                    conflict_agent, aliased)

\* --------------------------------------------- the window of a Reschedule
\* an applied Reschedule of a resolved target
AppliedReschedule ==
    /\ Returned
    /\ last.req.change_type = "reschedule"
    /\ Target # NoTarget
    /\ last.result.success

\* C30: after an applied Reschedule the target's date is the new date if one
\* was supplied, else its date before; its start is the new start if one was
\* supplied, else its start before; its end is the new end if one was
\* supplied, else the new start plus its duration before if a new start was
\* supplied, else its end before.
C30_RescheduleWindow ==
    AppliedReschedule =>
        LET before == last.pre[Target]
            after == current_schedule[Target]
        IN  /\ after.date = IF last.req.date # NoDate THEN last.req.date
                            ELSE before.date
            /\ after.start_time = IF HasTime(last.req.start_time)
                                  THEN last.req.start_time
                                  ELSE before.start_time
            /\ IF HasTime(last.req.end_time)
               THEN after.end_time = last.req.end_time
               ELSE IF HasTime(last.req.start_time)
               THEN Minutes(after.end_time)
                        = Minutes(last.req.start_time) + Duration(before)
               ELSE after.end_time = before.end_time

\* ------------------------------------------------- the frame of a Modify
\* a Modify returned
Modified == Returned /\ last.req.change_type = "modify"

\* C31: a Modify changes at most the title and the location of its target:
\* the target's date, start and end and every other event stay as they were,
\* and no conflict detection or confirmation takes place, so that no Modify
\* is declined because of conflicts.
C31_ModifyFrame ==
    Modified =>
        /\ Len(current_schedule) = Len(last.pre)
        /\ \A i \in 1..Len(last.pre) :
              IF i = Target
              THEN /\ current_schedule[i].date = last.pre[i].date
                   /\ current_schedule[i].start_time = last.pre[i].start_time
                   /\ current_schedule[i].end_time = last.pre[i].end_time
              ELSE current_schedule[i] = last.pre[i]
        /\ ~Did("detect")
        /\ ~Did("confirm")
        /\ last.result.conflicts = <<>>
        /\ last.result.message # "cancelled_by_user"

\* C31 witness: a Modify that carries a date gave the first of two events
\* that follow each other the other one's room and a new title
C31_Witness ==
    /\ Modified
    /\ last.result.success
    /\ Len(last.pre) = 2
    /\ Target = 1
    /\ last.req.date # NoDate
    /\ current_schedule[1].location # last.pre[1].location
    /\ current_schedule[1].course # last.pre[1].course
    /\ ~last.auto_confirm

\* ---------------------------------------------------- the frame of an Add
\* an Add that proceeds: it carries an event that is no duplicate of a local
\* one, no conflict was found or the conflicts were confirmed or auto_confirm
\* is set, and the store created the event or no store is bound
AddProceeds ==
    /\ Returned
    /\ last.req.change_type = "add"
    /\ ~last.req.clarification
    /\ last.req.new_event # NoEvent
    /\ ~AddsDuplicate
    /\ \/ last.result.conflicts = <<>>
       \/ last.auto_confirm
       \/ Took("confirm", "y")
    /\ \/ ~calendar_agent
       \/ Took("store.insert", "ok")

\* C32: an Add that proceeds returns success = true, and the schedule is the
\* schedule before the call with the new event behind its last event: the
\* events that were there keep their values and their order.
C32_AddAppends ==
    AddProceeds =>
        /\ last.result.success
        /\ Len(current_schedule) = Len(last.pre) + 1
        /\ SubSeq(current_schedule, 1, Len(last.pre)) = last.pre
        /\ SameFields(current_schedule[Len(current_schedule)],
                      last.req.new_event)

\* C32 witness: the new event met one of two events, the conflict was
\* confirmed and the store created the event
C32_Witness ==
    /\ AddProceeds
    /\ Len(last.pre) = 2
    /\ last.pre[1] # last.pre[2]
    /\ calendar_agent
    /\ Took("confirm", "y")
    /\ current_schedule[3].event_id # NoId

\* ------------------------------------------- properties of the validation
\* the state right after a call of validate ended
ValidateEnded == pc = "returned" /\ last.op = "validate"

\* the request carries a full new event: each of title, date, start and end
\* is held by its new event or by its details
CarriesFullEvent(req) ==
    \A field \in RequiredFields :
        field \in req.new_event.fields \/ field \in req.flat

\* C33: validate returns a boolean for every request; for an Add it is true
\* exactly when the request carries a full new event, also when the new
\* event is a ScheduleItem object, and for a Cancel, a Reschedule or a Modify
\* exactly when the target is resolved.
C33_ValidateDecides ==
    ValidateEnded =>
        /\ ~last.result.raised
        /\ last.result.value
               = IF last.req.change_type = "add"
                 THEN CarriesFullEvent(last.req)
                 ELSE last.req.original_event # NoEvent

\* ------------------------------------------ properties of the negotiation
\* the state right after _score_slot returned
Scored == pc = "returned" /\ last.op = "score_slot"

\* C34: the score of a slot depends on the hour h of its start only: 100 for
\* 9 <= h <= 11, 80 for 14 <= h <= 16, 60 for h in {12, 13, 17}, 40 for
\* h = 8 and 20 for every other hour.
C34_PreferenceCurve ==
    Scored =>
        last.result
            = CASE last.start_time[1] \in 9..11 -> 100
                [] last.start_time[1] \in 14..16 -> 80
                [] last.start_time[1] \in {12, 13, 17} -> 60
                [] last.start_time[1] = 8 -> 40
                [] OTHER -> 20

\* C34 witness: the last minute of the hour from four o'clock was scored
C34_Witness ==
    /\ Scored
    /\ last.start_time = <<16, 59>>
    /\ last.result = 80

\* the state right after negotiate_time returned
NegotiationEnded == pc = "returned" /\ last.op = "negotiate_time"

\* the date has a free slot of at least the duration negotiated
HasSlot(date) == find_free_slots(last.pre, date, last.duration) # <<>>

\* the positions of the preferred dates that have such a slot
Qualifying ==
    {i \in 1..Len(last.preferred_times) : HasSlot(last.preferred_times[i])}

\* the option at position i of the options ranks before the one at j: it
\* scores higher, or the same and its date was preferred earlier
RanksBefore(i, j) ==
    \/ last.options[i].score > last.options[j].score
    \/ last.options[i].score = last.options[j].score /\ i < j

\* the best option followed by the alternatives
Proposed == <<last.result.best_option>> \o last.result.alternatives

\* what negotiate_time is to return: failure exactly when no preferred date
\* has a free slot of at least the duration; otherwise one option for each
\* date that has one, a best option that scores at least as high as every
\* option, and at most two alternatives: the options that rank next, by
\* descending score and, for equal scores, in the order of the dates
BestAndRunnersUp ==
    /\ ~last.result.success <=> Qualifying = {}
    /\ last.result.success =>
          /\ Len(last.options) = Cardinality(Qualifying)
          /\ \A i \in 1..Len(last.options) :
                last.result.best_option.score >= last.options[i].score
          /\ Len(last.result.alternatives) <= 2
          /\ \E idx \in [1..Len(Proposed) -> 1..Len(last.options)] :
                /\ \A k \in 1..Len(Proposed) :
                      Proposed[k] = last.options[idx[k]]
                /\ \A k, l \in 1..Len(Proposed) :
                      k < l => RanksBefore(idx[k], idx[l])
                /\ \A k \in 1..Len(Proposed), u \in 1..Len(last.options) :
                      (\A l \in 1..Len(Proposed) : idx[l] # u)
                      => RanksBefore(idx[k], u)
                /\ Len(Proposed) = IF Len(last.options) < 3
                                   THEN Len(last.options) ELSE 3

\* C35 as stated: negotiate_time fails exactly when no preferred date has a
\* free slot of at least the duration, and otherwise returns the best
\* option and the at most two options that rank next.
C35_BestAndRunnersUp == NegotiationEnded => BestAndRunnersUp

\* C35 as amended: with a conflict agent set negotiate_time fails exactly
\* when no preferred date has a free slot of at least the duration, and
\* otherwise returns the best option and the at most two options that rank
\* next; without a conflict agent it fails for every input.
C35_WithConflictAgent ==
    NegotiationEnded =>
        IF collaboration_agent.conflict_agent
        THEN BestAndRunnersUp
        ELSE ~last.result.success

\* C35 witness: four dates gave four options, the last scoring higher than
\* the first and two dates between them scoring the same
C35_Witness ==
    /\ NegotiationEnded
    /\ Len(last.options) = 4
    /\ last.options[1].score < last.options[4].score
    /\ last.options[2].score = last.options[3].score
    /\ last.options[2].date # last.options[3].date

\* the free slots of a date of at least the duration negotiated
SlotsOn(date) == find_free_slots(last.pre, date, last.duration)

\* C40: the slot negotiate_time proposes for a date scores at least as high
\* as every free slot of at least the duration on that date, so that the
\* best option's score is the highest score of all such slots of all the
\* preferred dates.
C40_ProposedSlotIsBest ==
    NegotiationEnded =>
        /\ \A i \in 1..Len(last.options) :
              \A k \in 1..Len(SlotsOn(last.options[i].date)) :
                  last.options[i].score
                      >= score_slot(SlotsOn(last.options[i].date)[k][1])
        /\ last.result.success =>
              \A i \in 1..Len(last.preferred_times) :
                  \A k \in 1..Len(SlotsOn(last.preferred_times[i])) :
                      last.result.best_option.score
                          >= score_slot(SlotsOn(last.preferred_times[i])[k][1])

\* --------------------------------------------------- start before end
\* every event of the schedule starts before it ends, on its day
AllWellFormed(schedule) ==
    \A i \in 1..Len(schedule) : WellFormed(schedule[i])

\* C36: every event of the schedule has start < end after any sequence of
\* operations, given that the schedule began so and every Add carries an
\* event with start < end: no step leads from a schedule of such events to
\* a schedule with an event whose end is not after its start, unless it is
\* an Add of an event that is not so itself.
C36_StartBeforeEnd ==
    [][(/\ AllWellFormed(current_schedule)
        /\ ~(/\ last'.op = "execute"
             /\ last'.req.change_type = "add"
             /\ ~WellFormed(last'.req.new_event)))
       => AllWellFormed(current_schedule')]_vars

\* ------------------------------------- the two entries of the detector
\* a candidate was checked against a single event of its own date
AgainstOne ==
    /\ DetectedAgainst
    /\ Len(last.pre) = 1
    /\ last.pre[1].date = last.req.new_event.date

\* what check_conflicts reports for the candidate and the event together
Together == check_conflicts(<<last.req.new_event, last.pre[1]>>, <<>>)

\* C37: check_new_event_conflicts of a candidate against one event of its
\* date reports a conflict exactly when check_conflicts of the two events
\* reports one, and of the same type, whichever of the two is the earlier.
C37_AgainstAgreesWithDetect ==
    AgainstOne =>
        /\ Len(last.result.conflicts) = Len(Together)
        /\ \A i \in 1..Len(Together) :
              last.result.conflicts[i].conflict_type
                  = Together[i].conflict_type

\* ------------------------------------- the conflicts of a Reschedule
\* a Reschedule of a resolved target returned a result
RescheduleReturned ==
    /\ Returned
    /\ last.req.change_type = "reschedule"
    /\ Target # NoTarget
    /\ ~Did("raise")

\* the target as the Reschedule would leave it
Hypothetical == RescheduledEvent(last.pre[Target], last.req)

\* C38: the conflicts returned for a Reschedule name every event of the
\* schedule, other than the target itself, that conflicts with the target
\* as it would be after the update; an event that is not the target but
\* equals it in every field is one of them.
C38_OthersAreChecked ==
    RescheduleReturned =>
        \A j \in 1..Len(last.pre) :
            (/\ j # Target
             /\ last.pre[j].date = Hypothetical.date
             /\ check_pair_conflict(Hypothetical, last.pre[j]) # NoConflict)
            => \E i \in 1..Len(last.result.conflicts) :
                  last.result.conflicts[i].event_b = last.pre[j]

\* ------------------------------------------- the order of an Add's steps
\* the steps of duplicate detection and of duplicate resolution, local or
\* against the store
DuplicateSteps == {"duplicate_check", "store.check_duplicate", "resolve"}

\* C39: in an Add the duplicate check and the duplicate resolution come
\* before the conflict check and its confirmation: no execution asks for the
\* confirmation of a conflict and enters duplicate detection or duplicate
\* resolution after that.
C39_DuplicatesBeforeConflicts ==
    (Returned /\ last.req.change_type = "add") =>
        \A i, j \in 1..Len(last.trace) :
            (i < j /\ last.trace[i][1] = "confirm")
            => last.trace[j][1] \notin DuplicateSteps

====
